---- MODULE Spec2Model ----
(***************************************************************************)
(* go-virtual: the request dispatch pipeline (route table, response        *)
(* selection, statistics and trace emission), the trace bus (ring buffer   *)
(* and subscriber fan-out) and the file-backed store with its restart.     *)
(*                                                                         *)
(* Specifications                                                          *)
(*   SpecTrace   tracing.Service under concurrent Record / Subscribe /     *)
(*               Unsubscribe / Clear, traces with fresh ids                *)
(*   SpecDelivery  tracing.Service under concurrent Record / Subscribe /   *)
(*               Unsubscribe, nothing taken from the queues                *)
(*   SpecFanout  tracing.Service with subscriber queues filled to their    *)
(*               capacity                                                  *)
(*   Spec        admin handlers on rules and flags, and the dispatch of    *)
(*               requests (Engine.ServeHTTP), one call at a time           *)
(*   SpecStore   admin handlers on the file store, and process restarts    *)
(*   SpecReload  Engine.ReloadRoutes step by step beside concurrent        *)
(*               lookups                                                   *)
(*   SpecLifecycle  admin handlers on two specs: upload, delete, enable,   *)
(*               disable, base path                                        *)
(*   SpecAdmin   Handler.CreateSpec and Handler.DeleteSpec step by step,   *)
(*               interleaved                                               *)
(*   SpecRules   rules with status codes of every kind, and dispatch       *)
(*   SpecTraced  dispatch beside trace subscribers that come and go        *)
(*   SpecFaulty  dispatch on a store whose rule lookup can fail            *)
(*   SpecServe   Engine.ServeHTTP step by step: concurrent requests with   *)
(*               delays, beside route reloads, on a clock                  *)
(*   SpecOrder   Engine.ServeHTTP step by step, one request at a time,     *)
(*               rules with and without a delay                            *)
(*   SpecEval    condition.Evaluator as a function of its inputs           *)
(*   SpecQuery   Service.GetTraces on rings of recorded traces             *)
(*   SpecOutage  admin handlers whose route reload can fail, and dispatch  *)
(*   SpecDisk    admin handlers on a file store whose writes can fail      *)
(*   SpecMux     the MuxListener, callers of Close and callers of Accept   *)
(*   SpecUpdate  Handler.UpdateResponseConfig step by step beside a        *)
(*               request dispatched step by step                           *)
(*   SpecRandom  the template token random.int as a function               *)
(*   SpecHeaders dispatch of rules and examples with and without a         *)
(*               Content-Type                                              *)
(*   SpecStream  WebSocketHandler.ServeHTTP step by step beside the        *)
(*               dispatcher's RecordTrace; SpecStreamFair is SpecStream    *)
(*               under fair scheduling                                     *)
(***************************************************************************)
EXTENDS Integers, Sequences, FiniteSets, TLC

(***************************************************************************)
(* Bounds of the model                                                     *)
(***************************************************************************)
MaxRecords == 3
MaxSubs == 2
MaxCfgs == 3
MaxRequests == 1
MaxSpecs == 2
MaxTime == 2
MaxConds == 2
MaxParam == 9
MaxAccepted == 2

(***************************************************************************)
(* Program constants                                                       *)
(***************************************************************************)
DefaultMaxTraces == 1000
SubscriberQueueCap == 100
\* random.int without parameters draws below this
RandomIntLimit == 1000000
\* the capacity of MuxListener.httpConns and httpsConns
MuxQueueCap == 128

(***************************************************************************)
(* Universe                                                                *)
(***************************************************************************)
SpecIds == {"s1", "s2"}
Recorders == {"r1", "r2"}
FanoutRecorders == {"r1"}
FanoutSubIds == {1, 2}
NoProc == "none"
SubIds == 1..(MaxSubs + 1)
NoId == <<>>
Uuid(n) == <<"uuid", n>>
PresetId == <<"trace", 1>>
NoTrace == [id |-> NoId, specId |-> "none"]
\* traces handed to RecordTrace by the dispatcher: no id yet
FreshTraceInputs == [id : {NoId}, specId : SpecIds]
\* traces handed to RecordTrace with their id already set
PresetTraceInputs == [id : {PresetId}, specId : {"s1"}]
\* values of tracing.maxTraces in the configuration
MaxTracesConfigs == {2}
Overflow == <<"overflow">>

\* strings are sequences of tokens: "/" and the names between the slashes
Slash == "/"
ParamTokens == {"{id}"}
ParamName(tok) == IF tok = "{id}" THEN "id" ELSE tok
\* len() of a token in bytes
TokenLen(tok) ==
  CASE tok = "/" -> 1
    [] tok = "me" -> 2
    [] tok = "7" -> 1
    [] tok = "api" -> 3
    [] tok = "{id}" -> 4
    [] tok = "pets" -> 4
    [] tok = "files" -> 5
    [] tok = "users" -> 5
    [] OTHER -> 1

Methods == {"GET", "POST"}
EmptyMap == [k \in {} |-> ""]
Put(m, k, v) == [x \in DOMAIN m \cup {k} |-> IF x = k THEN v ELSE m[x]]
NoExample == [statusCode |-> 0, headers |-> EmptyMap, body |-> ""]
\* the operations an uploaded OpenAPI document declares
DocOps(doc) ==
  CASE doc = "users" ->
         {[method |-> "GET", path |-> <<"/", "users", "/", "me">>,
           example |-> [statusCode |-> 200,
                        headers |-> Put(EmptyMap, "Content-Type",
                                        "application/json"),
                        body |-> "example"]],
          [method |-> "GET", path |-> <<"/", "users", "/", "{id}">>,
           example |-> NoExample]}
    [] doc = "pets" ->
         {[method |-> "GET", path |-> <<"/", "pets">>,
           example |-> [statusCode |-> 204, headers |-> EmptyMap,
                        body |-> ""]],
          [method |-> "POST", path |-> <<"/", "pets">>,
           example |-> NoExample]}
    [] doc = "files" ->
         {[method |-> "GET", path |-> <<"/", "files", "/">>,
           example |-> NoExample]}
    [] OTHER -> {}
\* uploaded documents: the text format decides the content file's name
Contents ==
  {[fmt |-> "yaml", doc |-> "users"], [fmt |-> "json", doc |-> "pets"],
   [fmt |-> "yaml", doc |-> "files"]}
NoContent == [fmt |-> "", doc |-> ""]
SpecIdPool == <<"s1", "s2", "s3">>
AllSpecIds == {SpecIdPool[i] : i \in 1..Len(SpecIdPool)}
NoSpec == [id |-> "none"]
CfgIds == 1..MaxCfgs
\* an absent field of an input, and a present one
Nil == <<>>
Some(v) == <<v>>
NoCfg == [id |-> 0]
NoResponse == [via |-> "none"]
ContentExts == {".yaml", ".yml", ".spec.json"}
\* a file that does not exist, and one that holds data
NoFile == <<>>
File(data) == <<data>>
Lookups == {"l1", "l2"}
\* the body of the answer when neither a rule nor an example applies
NoMatchBody ==
  "{\"error\": \"No matching response configuration and no example in spec\"}"
\* what one RecordTrace call did for one subscriber (history)
NotOffered == <<"none">>
Skipped == <<"skipped">>
Sent == <<"sent">>
Dropped(queued) == <<"dropped", queued>>

VARIABLES
  traces,        \* Service.traces: the ring, oldest first
  maxTraces,     \* Service.maxTraces
  subscribers,   \* keys of Service.subscribers
  subClosed,     \* subscriber.closed of every subscriber ever created
  chanBuf,       \* buffered content of every subscriber channel
  chanClosed,    \* whether close() was called on the channel
  mu,            \* holder of Service.mu
  nextSub,       \* next subscription id (uuid.New)
  nextTrace,     \* next trace id (uuid.New)
  pc,            \* position of every RecordTrace call
  cur,           \* the trace of every RecordTrace call
  pending,       \* subscribers the notify loop has not visited yet
  target,        \* subscriber the notify loop is sending to
  outcome,       \* history: what the current call did for each subscriber
  sendPanic,     \* history: a send hit a closed channel
  closePanic,    \* history: close() hit a closed channel
  recorded,      \* history: ids recorded since the last clear
  specs,         \* MemoryStorage.specs
  operations,    \* MemoryStorage.operations
  responseConfigs, \* MemoryStorage.responseConfigs
  nextSpec,      \* index of the next spec id (uuid.New)
  nextCfg,       \* next rule id (generateID)
  diskSpecJson,  \* specs/{id}.json
  diskSpecContent, \* specs/{id}.yaml, .yml, .spec.json
  diskRespJson,  \* responses/{id}.json
  diskRespBody,  \* responses/{id}.body
  routes,        \* Engine.routes
  stats,         \* Collector: requests and errors counted
  last,          \* the response of the latest dispatched request
  emu,           \* Engine.mu: the writer flag and the readers
  rpc,           \* position of the ReloadRoutes call
  rtodo,         \* specs the loop of ReloadRoutes has not visited yet
  lpc,           \* position of every lookup
  committed,     \* history: the table the latest ReloadRoutes returned with
  ccall,         \* position of the CreateSpec call that runs step by step
  dcall,         \* position of the DeleteSpec call that runs step by step
  uploaded,      \* history: what CreateSpec was given and made, per spec id
  toggles,       \* history: the current run of enable/disable calls
  scall,         \* position of every ServeHTTP call that runs step by step
  now,           \* the clock: time.Now
  ws,            \* position of every WebSocketHandler.ServeHTTP call
  ucall,         \* position of the UpdateResponseConfig call that runs step
                 \* by step, and the versions of the rules it made
  mux            \* the MuxListener: its channels, its goroutines and the
                 \* callers of Close and Accept

traceVars == <<traces, maxTraces, subscribers, subClosed, chanBuf, chanClosed,
               mu, nextSub, nextTrace, pc, cur, pending, target, outcome,
               sendPanic, closePanic, recorded>>

storeVars == <<specs, operations, responseConfigs, nextSpec, nextCfg>>
diskVars == <<diskSpecJson, diskSpecContent, diskRespJson, diskRespBody>>
engineVars == <<routes, stats, last>>

reloadVars == <<emu, rpc, rtodo, lpc, committed>>
callVars == <<ccall, dcall, ws, ucall, mux>>
historyVars == <<uploaded, toggles>>
serveVars == <<scall, now>>
appVars == <<storeVars, diskVars, engineVars, reloadVars, callVars,
             historyVars, serveVars>>

vars == <<traceVars, appVars>>

(***************************************************************************)
(* Helpers                                                                 *)
(***************************************************************************)
Min(a, b) == IF a < b THEN a ELSE b
Last(s) == s[Len(s)]
\* Go slice s[from:] with a 0-based lower bound
SliceFrom(s, from) == SubSeq(s, from + 1, Len(s))
LastN(s, n) == SliceFrom(s, Len(s) - Min(n, Len(s)))
\* the filter loop of ClearTracesBySpec
RECURSIVE TracesNotOfSpec(_, _)
TracesNotOfSpec(s, specID) ==
  IF s = <<>> THEN <<>>
  ELSE IF Head(s).specId # specID
       THEN <<Head(s)>> \o TracesNotOfSpec(Tail(s), specID)
       ELSE TracesNotOfSpec(Tail(s), specID)

(***************************************************************************)
(* Strings and paths                                                       *)
(***************************************************************************)
RECURSIVE Segments(_)
\* the non-empty elements between the slashes
Segments(str) ==
  IF str = <<>> THEN <<>>
  ELSE IF Head(str) = Slash THEN Segments(Tail(str))
       ELSE <<Head(str)>> \o Segments(Tail(str))

RECURSIVE JoinSegments(_)
JoinSegments(segs) ==
  IF segs = <<>> THEN <<>>
  ELSE IF Len(segs) = 1 THEN segs
       ELSE <<Head(segs), Slash>> \o JoinSegments(Tail(segs))

RECURSIVE StrLen(_)
StrLen(str) == IF str = <<>> THEN 0 ELSE TokenLen(Head(str)) + StrLen(Tail(str))

\* path.Join(a, b): empty elements are ignored, the rest is joined by "/"
\* and cleaned
PathJoin(a, b) ==
  LET first == IF a # <<>> THEN a ELSE b
      rooted == first # <<>> /\ Head(first) = Slash
      segs == Segments(a) \o Segments(b)
  IN IF a = <<>> /\ b = <<>> THEN <<>>
     ELSE IF rooted THEN <<Slash>> \o JoinSegments(segs)
          ELSE JoinSegments(segs)

NormalizeBasePath(basePath) ==
  IF basePath = <<>> THEN <<>>
  ELSE LET lead == IF Head(basePath) # Slash THEN <<Slash>> \o basePath
                   ELSE basePath
       IN IF Last(lead) = Slash THEN SubSeq(lead, 1, Len(lead) - 1) ELSE lead

(***************************************************************************)
(* parser                                                                  *)
(***************************************************************************)
GenerateOperationIDOfPath(specID, method, path) == <<"", method, path>>

\* sha256 of "spec:method:path": one id per triple
GenerateOperationID(specID, method, path) == <<specID, method, path>>

ExtractOperations(content, specID, basePath) ==
  {[id |-> GenerateOperationID(specID, o.method, o.path),
    specId |-> specID,
    method |-> o.method,
    path |-> o.path,
    fullPath |-> PathJoin(basePath, o.path),
    example |-> o.example] : o \in DocOps(content.doc)}

ParseSpec(id, input) ==
  [id |-> id,
   content |-> input.content,
   basePath |-> NormalizeBasePath(input.basePath),
   enabled |-> TRUE,
   tracing |-> FALSE,
   useExampleFallback |-> TRUE]

ParseOperations(content, specID, basePath) ==
  ExtractOperations(content, specID, NormalizeBasePath(basePath))

(***************************************************************************)
(* storage: MemoryStorage and the files of FileStorage                     *)
(***************************************************************************)
SpecIdsOf(sp) == {id \in DOMAIN sp : sp[id] # NoSpec}
CfgIdsOf(rc) == {id \in DOMAIN rc : rc[id] # NoCfg}

GetSpecsEnabledOrNot(sp) == SpecIdsOf(sp)

GetEnabledSpecs(sp) == {id \in SpecIdsOf(sp) : sp[id].enabled}
GetOperationsBySpec(ops, specID) == {o \in ops : o.specId = specID}
OperationIds(ops) == {o.id : o \in ops}

\* the sequences that hold every element of S once
RECURSIVE Perms(_)
Perms(S) ==
  IF S = {} THEN {<<>>}
  ELSE UNION {{<<x>> \o p : p \in Perms(S \ {x})} : x \in S}

AnyOrder(rc, order) == TRUE

\* sort.Slice by Priority
SortedByPriority(rc, order) ==
  \A i, j \in 1..Len(order) :
    i < j => ~(rc[order[j]].priority < rc[order[i]].priority)

\* the slices GetResponseConfigsByOperation can return: the map is walked
\* in any order and the sort keeps no order among equal priorities
GetResponseConfigsByOperation(rc, opID) ==
  {order \in Perms({id \in CfgIdsOf(rc) : rc[id].operationId = opID}) :
     SortedByPriority(rc, order)}

ContentExt(content) == IF content.fmt = "json" THEN ".spec.json" ELSE ".yaml"

\* saveSpec: the content file, then the metadata without content
SaveSpecContent(files, spec) ==
  IF spec.content # NoContent
  THEN [files EXCEPT ![spec.id][ContentExt(spec.content)] =
                         File(spec.content)]
  ELSE files

SaveSpecJson(files, spec) ==
  [files EXCEPT ![spec.id] = File([spec EXCEPT !.content = NoContent])]

DeleteSpecJson(files, id) == [files EXCEPT ![id] = NoFile]
DeleteSpecContent(files, id) ==
  [files EXCEPT ![id] = [e \in ContentExts |-> NoFile]]

\* saveResponseConfig: the body file if the body is not empty, then the
\* metadata without body
SaveResponseBody(files, cfg) ==
  IF cfg.body # "" THEN [files EXCEPT ![cfg.id] = File(cfg.body)] ELSE files

SaveResponseJson(files, cfg) ==
  [files EXCEPT ![cfg.id] = File([cfg EXCEPT !.body = ""])]

DeleteResponseFile(files, id) == [files EXCEPT ![id] = NoFile]

\* loadSpecContent: .yaml, then .yml, then .spec.json
LoadSpecContent(files, id) ==
  IF files[id][".yaml"] # NoFile THEN files[id][".yaml"][1]
  ELSE IF files[id][".yml"] # NoFile THEN files[id][".yml"][1]
  ELSE IF files[id][".spec.json"] # NoFile THEN files[id][".spec.json"][1]
  ELSE NoContent

KeepTracing(spec) == spec

ResetTracing(spec) == [spec EXCEPT !.tracing = FALSE]

\* loadAll, one spec: metadata, content file, tracing reset
LoadSpec(json, contentFiles, id) ==
  LET content == LoadSpecContent(contentFiles, id)
      withContent == IF content # NoContent
                     THEN [json[id][1] EXCEPT !.content = content]
                     ELSE json[id][1]
  IN ResetTracing(withContent)

LoadSpecs(json, contentFiles) ==
  [id \in DOMAIN json |->
     IF json[id] = NoFile THEN NoSpec ELSE LoadSpec(json, contentFiles, id)]

\* loadAll: operations are regenerated from the content of every spec
LoadOperations(sp) ==
  UNION {IF sp[id].content # NoContent
         THEN ParseOperations(sp[id].content, id, sp[id].basePath)
         ELSE {} : id \in SpecIdsOf(sp)}

\* loadAll, one rule: metadata, then the body file if it holds a body
LoadResponseConfig(json, bodyFiles, id) ==
  IF bodyFiles[id] # NoFile /\ bodyFiles[id][1] # ""
  THEN [json[id][1] EXCEPT !.body = bodyFiles[id][1]]
  ELSE json[id][1]

LoadResponseConfigs(json, bodyFiles) ==
  [id \in DOMAIN json |->
     IF json[id] = NoFile THEN NoCfg
     ELSE LoadResponseConfig(json, bodyFiles, id)]

(***************************************************************************)
(* condition.Evaluator                                                     *)
(***************************************************************************)
FoldCase(name) == IF name = "X-Debug" THEN "x-debug" ELSE name

ExtractValue(source, key, data) ==
  CASE source = "path" ->
         IF key \in DOMAIN data.pathParams THEN data.pathParams[key] ELSE ""
    [] source = "query" ->
         IF key \in DOMAIN data.query /\ Len(data.query[key]) > 0
         THEN data.query[key][1] ELSE ""
    [] source = "header" ->
         IF \E k \in DOMAIN data.headers :
              FoldCase(k) = FoldCase(key) /\ Len(data.headers[k]) > 0
         THEN LET k == CHOOSE k \in DOMAIN data.headers :
                         FoldCase(k) = FoldCase(key) /\ Len(data.headers[k]) > 0
              IN data.headers[k][1]
         ELSE ""
    [] source = "body" ->
         IF key \in DOMAIN data.body THEN data.body[key] ELSE ""
    [] OTHER -> ""

\* the bytes of the strings that conditions and requests carry
Chars(str) ==
  CASE str = "" -> <<>>
    [] str = "1" -> <<"1">>
    [] str = "7" -> <<"7">>
    [] str = "9" -> <<"9">>
    [] str = "10" -> <<"1", "0">>
    [] str = "a" -> <<"a">>
    [] str = "abc" -> <<"a", "b", "c">>
    [] str = "me" -> <<"m", "e">>
    [] str = "(" -> <<"(">>
    [] OTHER -> <<str>>

Digits == <<"0", "1", "2", "3", "4", "5", "6", "7", "8", "9">>
IsDigit(c) == \E d \in 1..Len(Digits) : Digits[d] = c
DigitValue(c) == (CHOOSE d \in 1..Len(Digits) : Digits[d] = c) - 1
\* the byte of a character
CharRank(c) ==
  CASE c = "(" -> 40
    [] c = ")" -> 41
    [] IsDigit(c) -> 48 + DigitValue(c)
    [] c = "a" -> 97
    [] c = "b" -> 98
    [] c = "c" -> 99
    [] c = "e" -> 101
    [] c = "m" -> 109
    [] OTHER -> 0

\* a < b on Go strings: byte by byte, a proper prefix comes first
RECURSIVE BytesLess(_, _)
BytesLess(a, b) ==
  IF b = <<>> THEN FALSE
  ELSE IF a = <<>> THEN TRUE
  ELSE IF Head(a) # Head(b) THEN CharRank(Head(a)) < CharRank(Head(b))
  ELSE BytesLess(Tail(a), Tail(b))
StringLess(a, b) == BytesLess(Chars(a), Chars(b))

\* strings.Contains, strings.HasPrefix, strings.HasSuffix
Contains(str, substr) ==
  LET a == Chars(str)
      b == Chars(substr)
  IN \E i \in 0..(Len(a) - Len(b)) : SubSeq(a, i + 1, i + Len(b)) = b
HasPrefix(str, prefix) ==
  LET a == Chars(str)
      b == Chars(prefix)
  IN Len(b) <= Len(a) /\ SubSeq(a, 1, Len(b)) = b
HasSuffix(str, suffix) ==
  LET a == Chars(str)
      b == Chars(suffix)
  IN Len(b) <= Len(a) /\ SubSeq(a, Len(a) - Len(b) + 1, Len(a)) = b

\* strconv.ParseFloat on the decimal integers the model writes: Nil is the
\* error
RECURSIVE DecimalValue(_)
DecimalValue(cs) ==
  IF cs = <<>> THEN 0
  ELSE 10 * DecimalValue(SubSeq(cs, 1, Len(cs) - 1)) + DigitValue(Last(cs))
ParseFloat(str) ==
  LET cs == Chars(str)
  IN IF cs # <<>> /\ \A i \in 1..Len(cs) : IsDigit(cs[i])
     THEN Some(DecimalValue(cs)) ELSE Nil

\* regexp.Compile: Nil is the error, which a bracket that is not closed
\* raises
RegexpCompile(pattern) ==
  LET cs == Chars(pattern)
      count(c) == Cardinality({i \in 1..Len(cs) : cs[i] = c})
  IN IF count("(") # count(")") THEN Nil ELSE Some(pattern)

\* Regexp.MatchString for the patterns without operators: the text holds the
\* pattern somewhere
MatchString(re, str) == Contains(str, re)

\* compareNumeric without the fallback: equal when either side is no number
CompareNumbersOnly(a, b) ==
  LET aFloat == ParseFloat(a)
      bFloat == ParseFloat(b)
  IN IF aFloat = Nil \/ bFloat = Nil THEN 0
     ELSE IF aFloat[1] < bFloat[1] THEN -1
          ELSE IF aFloat[1] > bFloat[1] THEN 1 ELSE 0

\* compareNumeric: -1, 0 or 1; the order of the strings when either side is
\* no number
CompareNumeric(a, b) ==
  LET aFloat == ParseFloat(a)
      bFloat == ParseFloat(b)
  IN IF aFloat = Nil \/ bFloat = Nil
     THEN IF StringLess(a, b) THEN -1
          ELSE IF StringLess(b, a) THEN 1 ELSE 0
     ELSE IF aFloat[1] < bFloat[1] THEN -1
          ELSE IF aFloat[1] > bFloat[1] THEN 1 ELSE 0

\* compare; the default branch of the switch answers false
Compare(actual, operator, expected) ==
  CASE operator = "eq" -> actual = expected
    [] operator = "ne" -> actual # expected
    [] operator = "contains" -> Contains(actual, expected)
    [] operator = "notContains" -> ~Contains(actual, expected)
    [] operator = "startsWith" -> HasPrefix(actual, expected)
    [] operator = "endsWith" -> HasSuffix(actual, expected)
    [] operator = "regex" ->
         LET re == RegexpCompile(expected)
         IN IF re = Nil THEN FALSE ELSE MatchString(re[1], actual)
    [] operator = "exists" -> actual # ""
    [] operator = "notExists" -> actual = ""
    [] operator = "gt" -> CompareNumeric(actual, expected) > 0
    [] operator = "lt" -> CompareNumeric(actual, expected) < 0
    [] operator = "gte" -> CompareNumeric(actual, expected) >= 0
    [] operator = "lte" -> CompareNumeric(actual, expected) <= 0
    [] OTHER -> FALSE

Evaluate(cond, data) ==
  Compare(ExtractValue(cond.source, cond.key, data), cond.operator, cond.value)

\* the loop of EvaluateAll without its return: every condition is evaluated
RECURSIVE EvaluateEach(_, _)
EvaluateEach(conds, data) ==
  IF conds = <<>> THEN [result |-> TRUE, evaluated |-> 0]
  ELSE LET rest == EvaluateEach(Tail(conds), data)
       IN [result |-> Evaluate(Head(conds), data) /\ rest.result,
           evaluated |-> 1 + rest.evaluated]

\* the loop of EvaluateAll: its result and how many conditions it evaluated
RECURSIVE EvaluateLoop(_, _)
EvaluateLoop(conds, data) ==
  IF conds = <<>> THEN [result |-> TRUE, evaluated |-> 0]
  ELSE IF ~Evaluate(Head(conds), data)
       THEN [result |-> FALSE, evaluated |-> 1]
       ELSE LET rest == EvaluateLoop(Tail(conds), data)
            IN [result |-> rest.result, evaluated |-> 1 + rest.evaluated]

EvaluateAll(conds, data) == EvaluateLoop(conds, data).result

\* a call of Evaluate, and one of EvaluateAll, by any caller; the evaluator
\* keeps no state, so one call per behaviour shows all there is
EvaluateCall(cond, data) ==
  /\ last.via = "start"
  /\ last' = [via |-> "evaluate", cond |-> cond, data |-> data,
              result |-> Evaluate(cond, data)]
  /\ UNCHANGED <<traceVars, storeVars, diskVars, routes, stats, reloadVars,
                 callVars, historyVars, serveVars>>

EvaluateAllCall(conds, data) ==
  /\ last.via = "start"
  /\ LET run == EvaluateLoop(conds, data)
     IN last' = [via |-> "evaluateAll", conds |-> conds, data |-> data,
                 result |-> run.result, evaluated |-> run.evaluated]
  /\ UNCHANGED <<traceVars, storeVars, diskVars, routes, stats, reloadVars,
                 callVars, historyVars, serveVars>>

(***************************************************************************)
(* template.Engine                                                         *)
(***************************************************************************)
\* Process: a text without {{...}} is returned as it is; {{path.id}} is
\* replaced by the path parameter, or by nothing when there is none
Process(text, ctx) ==
  IF text = "{{path.id}}"
  THEN IF "id" \in DOMAIN ctx.pathParams THEN ctx.pathParams["id"] ELSE ""
  ELSE text

\* template keys are sequences of characters here
IntPrefix == <<"i", "n", "t", "(">>

\* strings.Split on one separator
RECURSIVE SplitChars(_, _)
SplitChars(cs, sep) ==
  IF \A i \in 1..Len(cs) : cs[i] # sep THEN <<cs>>
  ELSE LET at == CHOOSE i \in 1..Len(cs) :
                   cs[i] = sep /\ \A j \in 1..(i - 1) : cs[j] # sep
       IN <<SubSeq(cs, 1, at - 1)>> \o
          SplitChars(SubSeq(cs, at + 1, Len(cs)), sep)

\* parseParams: the text between the prefix and the last ")", split at the
\* commas; no parameters when the prefix is missing or the text is empty
ParseParams(key, prefix) ==
  IF Len(key) < Len(prefix) \/ SubSeq(key, 1, Len(prefix)) # prefix
  THEN <<>>
  ELSE LET rest == SubSeq(key, Len(prefix) + 1, Len(key))
           paramsStr == IF rest # <<>> /\ Last(rest) = ")"
                        THEN SubSeq(rest, 1, Len(rest) - 1) ELSE rest
       IN IF paramsStr = <<>> THEN <<>> ELSE SplitChars(paramsStr, ",")

\* strconv.Atoi with its error dropped: an optional sign and digits, 0 for
\* anything else
Atoi(cs) ==
  LET signed == cs # <<>> /\ Head(cs) \in {"-", "+"}
      digits == IF signed THEN Tail(cs) ELSE cs
  IN IF digits = <<>> \/ \E i \in 1..Len(digits) : ~IsDigit(digits[i])
     THEN 0
     ELSE IF signed /\ Head(cs) = "-" THEN 0 - DecimalValue(digits)
          ELSE DecimalValue(digits)

\* strconv.Itoa
RECURSIVE ItoaDigits(_)
ItoaDigits(n) ==
  IF n < 10 THEN <<Digits[n + 1]>>
  ELSE Append(ItoaDigits(n \div 10), Digits[(n % 10) + 1])
Itoa(n) == IF n < 0 THEN <<"-">> \o ItoaDigits(0 - n) ELSE ItoaDigits(n)

\* rand.Intn(n): a number of 0..n-1; the draws the model takes are the
\* least, the middle and the greatest
Draws == {"least", "middle", "greatest"}
Intn(n, draw) ==
  CASE draw = "least" -> 0
    [] draw = "middle" -> n \div 2
    [] draw = "greatest" -> n - 1

\* the range test of resolveRandom
RangeGiven(min, max) == max > min

\* resolveRandom for the keys int and int(...): the text it returns
ResolveRandom(key, draw) ==
  LET params == ParseParams(key, IntPrefix)
  IN IF Len(params) = 2 /\ RangeGiven(Atoi(params[1]), Atoi(params[2]))
     THEN LET min == Atoi(params[1])
              max == Atoi(params[2])
          IN Itoa(min + Intn(max - min + 1, draw))
     ELSE Itoa(Intn(RandomIntLimit, draw))

(***************************************************************************)
(* proxy.Engine: the route table                                           *)
(***************************************************************************)
RECURSIVE ParamKeysOf(_)
ParamKeysOf(str) ==
  IF str = <<>> THEN <<>>
  ELSE IF Head(str) \in ParamTokens
       THEN <<ParamName(Head(str))>> \o ParamKeysOf(Tail(str))
       ELSE ParamKeysOf(Tail(str))

\* buildPathPattern: the joined path, anchored, with ([^/]+) for {param}
BuildRoute(spec, op) ==
  LET fullPath == PathJoin(spec.basePath, op.path)
  IN [specId |-> spec.id, op |-> op, pattern |-> fullPath,
      paramKeys |-> ParamKeysOf(fullPath)]

\* sortRoutes: fewer parameters first, then the longer operation path
RouteBefore(a, b) ==
  IF Len(a.paramKeys) # Len(b.paramKeys)
  THEN Len(a.paramKeys) < Len(b.paramKeys)
  ELSE StrLen(a.op.path) > StrLen(b.op.path)

SortedRoutes(order) ==
  \A i, j \in 1..Len(order) : i < j => ~RouteBefore(order[j], order[i])

RoutesOf(sp, ops, method) ==
  {BuildRoute(sp[o.specId], o) :
     o \in {x \in ops : x.method = method /\ x.specId \in GetEnabledSpecs(sp)}}

\* the tables ReloadRoutes can build from the store: sort.Slice keeps no
\* order among routes of equal rank
ReloadedTables(sp, ops) ==
  LET sorted(m) == {order \in Perms(RoutesOf(sp, ops, m)) :
                      SortedRoutes(order)}
  IN {[m \in Methods |-> IF m = "GET" THEN get ELSE post] :
        get \in sorted("GET"), post \in sorted("POST")}

\* FindStringSubmatch of the anchored pattern
PatternMatches(pattern, requestPath) ==
  /\ Len(pattern) = Len(requestPath)
  /\ \A i \in 1..Len(pattern) :
       IF pattern[i] \in ParamTokens THEN requestPath[i] # Slash
       ELSE pattern[i] = requestPath[i]

PathParamsOf(pattern, requestPath) ==
  LET idx == {i \in 1..Len(pattern) : pattern[i] \in ParamTokens}
  IN [k \in {ParamName(pattern[i]) : i \in idx} |->
        requestPath[CHOOSE i \in idx : ParamName(pattern[i]) = k]]

\* matchRoute: the index of the first route of the method that matches,
\* 0 when there is none
MatchRoute(table, method, requestPath) ==
  IF method \notin DOMAIN table THEN 0
  ELSE LET hits == {i \in 1..Len(table[method]) :
                      PatternMatches(table[method][i].pattern, requestPath)}
       IN IF hits = {} THEN 0
          ELSE CHOOSE i \in hits : \A j \in hits : i <= j

(***************************************************************************)
(* tracing.Service                                                         *)
(***************************************************************************)
NewServiceMaxTraces(cfg) == IF cfg <= 0 THEN DefaultMaxTraces ELSE cfg

TraceInit(cfgs) ==
  /\ traces = <<>>
  /\ maxTraces \in {NewServiceMaxTraces(c) : c \in cfgs}
  /\ subscribers = {}
  /\ subClosed = [s \in SubIds |-> FALSE]
  /\ chanBuf = [s \in SubIds |-> <<>>]
  /\ chanClosed = [s \in SubIds |-> FALSE]
  /\ mu = NoProc
  /\ nextSub = 1
  /\ nextTrace = 1
  /\ pc = [p \in Recorders |-> "idle"]
  /\ cur = [p \in Recorders |-> NoTrace]
  /\ pending = [p \in Recorders |-> {}]
  /\ target = [p \in Recorders |-> 0]
  /\ outcome = [p \in Recorders |-> [s \in SubIds |-> NotOffered]]
  /\ sendPanic = FALSE
  /\ closePanic = FALSE
  /\ recorded = <<>>

\* the trim of RecordTrace: keep the last maxTraces entries
TrimOldest(ts) ==
  IF Len(ts) > maxTraces THEN SliceFrom(ts, Len(ts) - maxTraces) ELSE ts

TrimNewest(ts) ==
  IF Len(ts) > maxTraces THEN SubSeq(ts, 1, maxTraces) ELSE ts

TrimTraces(ts) == TrimOldest(ts)

\* who holds Service.mu while the notify loop runs
HolderOld(p) == NoProc

NotifyHolder(p) == p

Remember(h, id) ==
  IF h = Overflow \/ Len(h) >= MaxRecords THEN Overflow ELSE Append(h, id)

\* RecordTrace up to the notify loop: lock, id, append, trim
RecordLock(p, tr) ==
  /\ pc[p] = "idle"
  /\ mu = NoProc
  /\ tr.id = NoId => nextTrace <= MaxRecords
  /\ LET t == IF tr.id = NoId THEN [tr EXCEPT !.id = Uuid(nextTrace)] ELSE tr
     IN /\ cur' = [cur EXCEPT ![p] = t]
        /\ traces' = TrimTraces(Append(traces, t))
        /\ recorded' = Remember(recorded, t.id)
  /\ nextTrace' = IF tr.id = NoId THEN nextTrace + 1 ELSE nextTrace
  /\ mu' = NotifyHolder(p)
  /\ pending' = [pending EXCEPT ![p] = subscribers]
  /\ outcome' = [outcome EXCEPT ![p] = [s \in SubIds |-> NotOffered]]
  /\ pc' = [pc EXCEPT ![p] = "notify"]
  /\ UNCHANGED <<maxTraces, subscribers, subClosed, chanBuf, chanClosed,
                 nextSub, target, sendPanic, closePanic>>
  /\ UNCHANGED appVars

\* one iteration of the notify loop: the closed test
RecordCheck(p) ==
  /\ pc[p] = "notify"
  /\ \E s \in pending[p] :
       IF subClosed[s]
       THEN /\ pending' = [pending EXCEPT ![p] = @ \ {s}]
            /\ outcome' = [outcome EXCEPT ![p][s] = Skipped]
            /\ UNCHANGED <<pc, target>>
       ELSE /\ target' = [target EXCEPT ![p] = s]
            /\ pc' = [pc EXCEPT ![p] = "send"]
            /\ UNCHANGED <<pending, outcome>>
  /\ UNCHANGED <<traces, maxTraces, subscribers, subClosed, chanBuf,
                 chanClosed, mu, nextSub, nextTrace, cur, sendPanic,
                 closePanic, recorded>>
  /\ UNCHANGED appVars

\* ch <- trace without the default branch: waits for room in the queue
SendBlocking(p, s) ==
  /\ ~chanClosed[s]
  /\ Len(chanBuf[s]) < SubscriberQueueCap
  /\ chanBuf' = [chanBuf EXCEPT ![s] = Append(@, cur[p])]
  /\ outcome' = [outcome EXCEPT ![p][s] = Sent]
  /\ UNCHANGED sendPanic

\* select { case ch <- trace: default: }

TrySend(p, s) ==
  IF chanClosed[s]
  THEN /\ sendPanic' = TRUE
       /\ UNCHANGED <<chanBuf, outcome>>
  ELSE IF Len(chanBuf[s]) < SubscriberQueueCap
       THEN /\ chanBuf' = [chanBuf EXCEPT ![s] = Append(@, cur[p])]
            /\ outcome' = [outcome EXCEPT ![p][s] = Sent]
            /\ UNCHANGED sendPanic
       ELSE /\ outcome' = [outcome EXCEPT ![p][s] = Dropped(Len(chanBuf[s]))]
            /\ UNCHANGED <<chanBuf, sendPanic>>

\* one iteration of the notify loop: the non-blocking send
RecordSend(p) ==
  /\ pc[p] = "send"
  /\ TrySend(p, target[p])
  /\ pending' = [pending EXCEPT ![p] = @ \ {target[p]}]
  /\ pc' = [pc EXCEPT ![p] = "notify"]
  /\ UNCHANGED <<traces, maxTraces, subscribers, subClosed, chanClosed, mu,
                 nextSub, nextTrace, cur, target, closePanic, recorded>>
  /\ UNCHANGED appVars

\* the loop is over: unlock and return
RecordUnlock(p) ==
  /\ pc[p] = "notify"
  /\ pending[p] = {}
  /\ mu' = IF mu = p THEN NoProc ELSE mu
  /\ pc' = [pc EXCEPT ![p] = "idle"]
  /\ cur' = [cur EXCEPT ![p] = NoTrace]
  /\ target' = [target EXCEPT ![p] = 0]
  /\ outcome' = [outcome EXCEPT ![p] = [s \in SubIds |-> NotOffered]]
  /\ UNCHANGED <<traces, maxTraces, subscribers, subClosed, chanBuf,
                 chanClosed, nextSub, nextTrace, pending, sendPanic,
                 closePanic, recorded>>
  /\ UNCHANGED appVars

\* id is the value uuid.New returns: never one that was returned before
SubscribeCall(id) ==
  /\ mu = NoProc
  /\ id = nextSub
  /\ subscribers' = subscribers \cup {nextSub}
  /\ nextSub' = nextSub + 1
  /\ UNCHANGED <<traces, maxTraces, subClosed, chanBuf, chanClosed, mu,
                 nextTrace, pc, cur, pending, target, outcome, sendPanic,
                 closePanic, recorded>>

Subscribe(id) == SubscribeCall(id) /\ UNCHANGED appVars

\* an id that no longer names a subscription counts as one
EverSubscribed(id) == id < nextSub

\* sub, ok := s.subscribers[id]
IsSubscribed(id) == id \in subscribers

UnsubscribeCall(id) ==
  /\ mu = NoProc
  /\ IF IsSubscribed(id)
     THEN /\ subClosed' = [subClosed EXCEPT ![id] = TRUE]
          /\ closePanic' = (closePanic \/ chanClosed[id])
          /\ chanClosed' = [chanClosed EXCEPT ![id] = TRUE]
          /\ subscribers' = subscribers \ {id}
     ELSE UNCHANGED <<subClosed, closePanic, chanClosed, subscribers>>
  /\ UNCHANGED <<traces, maxTraces, chanBuf, mu, nextSub, nextTrace, pc, cur,
                 pending, target, outcome, sendPanic, recorded>>

Unsubscribe(id) == UnsubscribeCall(id) /\ UNCHANGED appVars

\* the reader of a subscription takes the oldest queued trace
ReceiveCall(s) ==
  /\ s < nextSub
  /\ chanBuf[s] # <<>>
  /\ chanBuf' = [chanBuf EXCEPT ![s] = Tail(@)]
  /\ UNCHANGED <<traces, maxTraces, subscribers, subClosed, chanClosed, mu,
                 nextSub, nextTrace, pc, cur, pending, target, outcome,
                 sendPanic, closePanic, recorded>>

Receive(s) == ReceiveCall(s) /\ UNCHANGED appVars

ClearTraces ==
  /\ mu = NoProc
  /\ traces # <<>>
  /\ traces' = <<>>
  /\ recorded' = <<>>
  /\ UNCHANGED <<maxTraces, subscribers, subClosed, chanBuf, chanClosed, mu,
                 nextSub, nextTrace, pc, cur, pending, target, outcome,
                 sendPanic, closePanic>>
  /\ UNCHANGED appVars

ClearTracesBySpec(specID) ==
  /\ mu = NoProc
  /\ LET filtered == TracesNotOfSpec(traces, specID)
     IN /\ filtered # traces
        /\ traces' = filtered
        /\ recorded' = [i \in 1..Len(filtered) |-> filtered[i].id]
  /\ UNCHANGED <<maxTraces, subscribers, subClosed, chanBuf, chanClosed, mu,
                 nextSub, nextTrace, pc, cur, pending, target, outcome,
                 sendPanic, closePanic>>
  /\ UNCHANGED appVars

\* time.Time.IsZero: the zero time is 0, every trace is stamped later
IsZero(t) == t = 0

\* the continue statements of GetTraces: the trace fails a field the filter
\* sets
Skips(filter, trace) ==
  \/ filter.specId # "" /\ trace.specId # filter.specId
  \/ filter.operationId # "" /\ trace.operationId # filter.operationId
  \/ filter.method # "" /\ trace.request.method # filter.method
  \/ filter.statusCode # 0 /\ trace.response.statusCode # filter.statusCode
  \/ ~IsZero(filter.startTime) /\ trace.timestamp < filter.startTime
  \/ ~IsZero(filter.endTime) /\ trace.timestamp > filter.endTime

\* the break of GetTraces
LimitPassed(filter, result) ==
  filter # Nil /\ filter[1].limit > 0 /\ Len(result) > filter[1].limit

LimitReached(filter, result) ==
  filter # Nil /\ filter[1].limit > 0 /\ Len(result) >= filter[1].limit

\* the loop of GetTraces, from index i down to the oldest trace
RECURSIVE GetTracesLoop(_, _, _, _)
GetTracesLoop(ts, i, filter, result) ==
  IF i < 1 THEN result
  ELSE IF filter # Nil /\ Skips(filter[1], ts[i])
       THEN GetTracesLoop(ts, i - 1, filter, result)
       ELSE LET appended == Append(result, ts[i])
            IN IF LimitReached(filter, appended) THEN appended
               ELSE GetTracesLoop(ts, i - 1, filter, appended)

\* Service.GetTraces: filter is Nil or Some(TraceFilter)
GetTraces(ts, filter) == GetTracesLoop(ts, Len(ts), filter, <<>>)

(***************************************************************************)
(* Start of the process                                                    *)
(***************************************************************************)
NoRoutes == [m \in Methods |-> <<>>]
NoStats == [requests |-> 0, errors |-> 0]
Started == [via |-> "start"]
NoCall == [pc |-> "idle"]
NoUpdate == [pc |-> "idle", versions |-> {}]
\* the listeners a MuxListener hands out, and the goroutines that call Close
Listeners == {"http", "https"}
Closers == {"c1", "c2"}
\* NewMuxListener: open channels, empty queues, and serve started
NewMuxListener ==
  [closed |-> FALSE, once |-> FALSE, innerClosed |-> FALSE,
   closePanic |-> FALSE, serve |-> "accept", accepted |-> 0,
   handlers |-> [n \in 1..MaxAccepted |-> [pc |-> "none", tls |-> FALSE]],
   conns |-> [l \in Listeners |-> 0],
   closers |-> [c \in Closers |-> "idle"],
   acceptors |-> [l \in Listeners |-> [pc |-> "idle", got |-> "none"]]]
NoToggles == [id |-> "none"]
Servers == {"h1", "h2"}
NoServe == [pc |-> "idle"]
\* the WebSocket connections of trace clients
Conns == {"w1"}
NoConn ==
  [pc |-> "idle", sub |-> 0, open |-> FALSE, done |-> FALSE, msg |-> "none"]

\* an empty data directory, a fresh store, collector and engine
AppInit ==
  /\ specs = [id \in AllSpecIds |-> NoSpec]
  /\ operations = {}
  /\ responseConfigs = [id \in CfgIds |-> NoCfg]
  /\ nextSpec = 1
  /\ nextCfg = 1
  /\ diskSpecJson = [id \in AllSpecIds |-> NoFile]
  /\ diskSpecContent = [id \in AllSpecIds |-> [e \in ContentExts |-> NoFile]]
  /\ diskRespJson = [id \in CfgIds |-> NoFile]
  /\ diskRespBody = [id \in CfgIds |-> NoFile]
  /\ routes = NoRoutes
  /\ stats = NoStats
  /\ last = Started
  /\ emu = [writer |-> FALSE, readers |-> {}]
  /\ rpc = "idle"
  /\ rtodo = <<>>
  /\ lpc = [l \in Lookups |-> "idle"]
  /\ committed = NoRoutes
  /\ ccall = NoCall
  /\ dcall = NoCall
  /\ ws = [c \in Conns |-> NoConn]
  /\ ucall = NoUpdate
  /\ mux = NewMuxListener
  /\ uploaded = [id \in AllSpecIds |-> Nil]
  /\ toggles = NoToggles
  /\ scall = [h \in Servers |-> NoServe]
  /\ now = 0

(***************************************************************************)
(* Calls made by the handlers and by the dispatcher                        *)
(***************************************************************************)
NoReloadCall(sp, ops) == UNCHANGED <<routes, committed, emu, rpc, rtodo, lpc>>

\* Engine.ReloadRoutes, as one call
ReloadRoutesCall(sp, ops) ==
  /\ routes' \in ReloadedTables(sp, ops)
  /\ committed' = routes'
  /\ UNCHANGED <<emu, rpc, rtodo, lpc>>

\* Engine.ReloadRoutes, as one call, on a store whose GetEnabledSpecs
\* returns an error when err: the table was cleared before the store was
\* asked
ReloadRoutesOn(sp, ops, err) ==
  IF err
  THEN /\ routes' = NoRoutes
       /\ committed' = routes'
       /\ UNCHANGED <<emu, rpc, rtodo, lpc>>
  ELSE ReloadRoutesCall(sp, ops)

\* Service.RecordTrace, as one call
RecordTraceCall(tr) ==
  LET t == [tr EXCEPT !.id = Uuid(nextTrace)]
  IN /\ traces' = TrimTraces(Append(traces, t))
     /\ recorded' = Remember(recorded, t.id)
     /\ nextTrace' = nextTrace + 1
     /\ chanBuf' = [s \in SubIds |->
                      IF /\ s \in subscribers
                         /\ ~subClosed[s]
                         /\ Len(chanBuf[s]) < SubscriberQueueCap
                      THEN Append(chanBuf[s], t) ELSE chanBuf[s]]
     /\ UNCHANGED <<maxTraces, subscribers, subClosed, chanClosed, mu,
                    nextSub, pc, cur, pending, target, outcome, sendPanic,
                    closePanic>>

\* Service.ClearTracesBySpec, as one call
ClearTracesBySpecCall(specID) ==
  LET kept == TracesNotOfSpec(traces, specID)
  IN /\ traces' = kept
     /\ recorded' = IF kept = traces THEN recorded
                    ELSE [i \in 1..Len(kept) |-> kept[i].id]
     /\ UNCHANGED <<maxTraces, subscribers, subClosed, chanBuf, chanClosed,
                    mu, nextSub, nextTrace, pc, cur, pending, target, outcome,
                    sendPanic, closePanic>>

\* Collector.RecordRequest
RecordRequest(st, isError) ==
  [requests |-> st.requests + 1,
   errors |-> IF isError THEN st.errors + 1 ELSE st.errors]

(***************************************************************************)
(* History: uploads, and runs of enable/disable calls                      *)
(***************************************************************************)
\* the request paths of the model
RoutedPaths ==
  {<<"/", "users", "/", "me">>, <<"/", "users", "/", "7">>,
   <<"/", "pets">>, <<"/", "api", "/", "pets">>,
   <<"/", "api", "/", "users", "/", "me">>,
   <<"/", "files">>, <<"/", "files", "/">>, <<"/", "users", "/">>}

\* the operation matchRoute finds for every request, Nil when it finds none
Matching(table) ==
  [m \in Methods, p \in RoutedPaths |->
     LET idx == MatchRoute(table, m, p)
     IN IF idx = 0 THEN Nil ELSE Some(table[m][idx].op.id)]

\* a call that flips the flag of spec id starts or continues the run of
\* toggles of that spec; before is the matching when the run started
CountToggle(id, enabled) ==
  IF specs[id].enabled = enabled THEN NoToggles
  ELSE IF toggles.id = id THEN [toggles EXCEPT !.odd = ~@]
  ELSE [id |-> id, odd |-> TRUE, before |-> Matching(routes)]

\* what one CreateSpec call was given and what it stored; reupload holds
\* the deleted specs that had been uploaded from the same input
Upload(input, spec, ops) ==
  [input |-> input,
   spec |-> spec,
   ops |-> {[id |-> o.id, method |-> o.method, path |-> o.path] : o \in ops},
   reupload |-> {old \in AllSpecIds :
                   /\ uploaded[old] # Nil
                   /\ specs[old] = NoSpec
                   /\ uploaded[old][1].input = input}]

\* any other admin call ends the run
NotAToggle ==
  /\ toggles' = NoToggles
  /\ UNCHANGED uploaded

(***************************************************************************)
(* Admin handlers: what each does to the store, the files and the traces   *)
(* before it reloads the routes                                            *)
(***************************************************************************)
\* id is the uuid Parse draws for the spec
CreateSpecStore(id, input) ==
  /\ nextSpec <= MaxSpecs
  /\ id = SpecIdPool[nextSpec]
  /\ LET spec == ParseSpec(id, input)
         ops == ExtractOperations(input.content, spec.id, spec.basePath)
     IN /\ specs' = [specs EXCEPT ![spec.id] = spec]
        /\ operations' = operations \cup ops
        /\ diskSpecContent' = SaveSpecContent(diskSpecContent, spec)
        /\ diskSpecJson' = SaveSpecJson(diskSpecJson, spec)
        /\ uploaded' = [uploaded EXCEPT ![id] = Some(Upload(input, spec, ops))]
  /\ toggles' = NoToggles
  /\ nextSpec' = nextSpec + 1
  /\ UNCHANGED <<responseConfigs, nextCfg, diskRespJson, diskRespBody,
                 traceVars>>

\* the fields of SpecUpdate the model sets: Nil is an absent field
ApplySpecUpdate(spec, update) ==
  [spec EXCEPT
     !.basePath = IF update.basePath # Nil THEN update.basePath[1] ELSE @,
     !.enabled = IF update.enabled # Nil THEN update.enabled[1] ELSE @,
     !.tracing = IF update.tracing # Nil THEN update.tracing[1] ELSE @]

UpdateSpecStore(id, update) ==
  /\ specs[id] # NoSpec
  /\ LET spec == ApplySpecUpdate(specs[id], update)
     IN /\ specs' = [specs EXCEPT ![id] = spec]
        /\ operations' =
             IF update.basePath # Nil
             THEN {IF o.specId = id
                   THEN [o EXCEPT !.fullPath = spec.basePath \o o.path]
                   ELSE o : o \in operations}
             ELSE operations
        /\ diskSpecContent' = SaveSpecContent(diskSpecContent, spec)
        /\ diskSpecJson' = SaveSpecJson(diskSpecJson, spec)
  /\ NotAToggle
  /\ UNCHANGED <<responseConfigs, nextSpec, nextCfg, diskRespJson,
                 diskRespBody, traceVars>>

DeleteSpecKeepRules(id) ==
  /\ operations' = operations \ GetOperationsBySpec(operations, id)
  /\ UNCHANGED <<responseConfigs, diskRespJson, diskRespBody>>

\* DeleteSpec up to the store's DeleteSpec: rules and operations go first
DeleteSpecCascade(id) ==
  LET opIds == OperationIds(GetOperationsBySpec(operations, id))
      gone == {c \in CfgIdsOf(responseConfigs) :
                 responseConfigs[c].operationId \in opIds}
  IN /\ responseConfigs' = [c \in CfgIds |->
                              IF c \in gone THEN NoCfg ELSE responseConfigs[c]]
     /\ diskRespJson' = [c \in CfgIds |->
                           IF c \in gone THEN NoFile ELSE diskRespJson[c]]
     /\ diskRespBody' = [c \in CfgIds |->
                           IF c \in gone THEN NoFile ELSE diskRespBody[c]]
     /\ operations' = operations \ GetOperationsBySpec(operations, id)

DeleteSpecStore(id) ==
  /\ specs[id] # NoSpec
  /\ DeleteSpecCascade(id)
  /\ specs' = [specs EXCEPT ![id] = NoSpec]
  /\ diskSpecJson' = DeleteSpecJson(diskSpecJson, id)
  /\ diskSpecContent' = DeleteSpecContent(diskSpecContent, id)
  /\ ClearTracesBySpecCall(id)
  /\ NotAToggle
  /\ UNCHANGED <<nextSpec, nextCfg>>

SetEnabledStore(id, enabled) ==
  /\ specs[id] # NoSpec
  /\ LET spec == [specs[id] EXCEPT !.enabled = enabled]
     IN /\ specs' = [specs EXCEPT ![id] = spec]
        /\ diskSpecContent' = SaveSpecContent(diskSpecContent, spec)
        /\ diskSpecJson' = SaveSpecJson(diskSpecJson, spec)
  /\ toggles' = CountToggle(id, enabled)
  /\ UNCHANGED <<operations, responseConfigs, nextSpec, nextCfg,
                 diskRespJson, diskRespBody, traceVars, uploaded>>

\* the part of every handler after its last call
Answered ==
  /\ last' = NoResponse
  /\ UNCHANGED <<stats, callVars, serveVars>>

(***************************************************************************)
(* Admin handlers                                                          *)
(***************************************************************************)
CreateSpec(id, input) ==
  /\ CreateSpecStore(id, input)
  /\ ReloadRoutesCall(specs', operations')
  /\ Answered

UpdateSpec(id, update) ==
  /\ UpdateSpecStore(id, update)
  /\ ReloadRoutesCall(specs', operations')
  /\ Answered

DeleteSpec(id) ==
  /\ DeleteSpecStore(id)
  /\ ReloadRoutesCall(specs', operations')
  /\ Answered

EnableSpec(id) ==
  /\ SetEnabledStore(id, TRUE)
  /\ ReloadRoutesCall(specs', operations')
  /\ Answered

DisableSpec(id) ==
  /\ SetEnabledStore(id, FALSE)
  /\ ReloadRoutesCall(specs', operations')
  /\ Answered

\* EnableSpec whose ReloadRoutes may fail; the handler drops the error
EnableSpecOn(id, err) ==
  /\ SetEnabledStore(id, TRUE)
  /\ ReloadRoutesOn(specs', operations', err)
  /\ Answered

\* ToggleTracing: the body's value, or the opposite of the flag without body
ToggleTracing(id, body) ==
  /\ specs[id] # NoSpec
  /\ LET spec == [specs[id] EXCEPT
                    !.tracing = IF body = Nil THEN ~@ ELSE body[1]]
     IN /\ specs' = [specs EXCEPT ![id] = spec]
        /\ diskSpecContent' = SaveSpecContent(diskSpecContent, spec)
        /\ diskSpecJson' = SaveSpecJson(diskSpecJson, spec)
  /\ Answered
  /\ NotAToggle
  /\ UNCHANGED <<operations, responseConfigs, nextSpec, nextCfg,
                 diskRespJson, diskRespBody, traceVars, routes, reloadVars>>

\* PUT /specs/:id/example-fallback
ToggleExampleFallback(id, enabled) ==
  /\ specs[id] # NoSpec
  /\ LET spec == [specs[id] EXCEPT !.useExampleFallback = enabled]
     IN /\ specs' = [specs EXCEPT ![id] = spec]
        /\ diskSpecContent' = SaveSpecContent(diskSpecContent, spec)
        /\ diskSpecJson' = SaveSpecJson(diskSpecJson, spec)
  /\ Answered
  /\ NotAToggle
  /\ UNCHANGED <<operations, responseConfigs, nextSpec, nextCfg,
                 diskRespJson, diskRespBody, traceVars, routes, reloadVars>>

\* the defaults CreateResponseConfig sets
NewResponseConfig(id, opID, input) ==
  [id |-> id,
   operationId |-> opID,
   priority |-> input.priority,
   conditions |-> IF input.conditions = Nil THEN <<>>
                  ELSE input.conditions[1],
   statusCode |-> IF input.statusCode = 0 THEN 200 ELSE input.statusCode,
   headers |-> IF input.headers = Nil THEN EmptyMap ELSE input.headers[1],
   body |-> input.body,
   delay |-> input.delay,
   enabled |-> input.enabled]

CreateResponseConfig(opID, input) ==
  /\ opID \in OperationIds(operations)
  /\ nextCfg <= MaxCfgs
  /\ LET cfg == NewResponseConfig(nextCfg, opID, input)
     IN /\ responseConfigs' = [responseConfigs EXCEPT ![cfg.id] = cfg]
        /\ diskRespBody' = SaveResponseBody(diskRespBody, cfg)
        /\ diskRespJson' = SaveResponseJson(diskRespJson, cfg)
  /\ nextCfg' = nextCfg + 1
  /\ Answered
  /\ NotAToggle
  /\ UNCHANGED <<specs, operations, nextSpec, diskSpecJson, diskSpecContent,
                 traceVars, routes, reloadVars>>

\* the fields of ResponseConfigUpdate the model sets: Nil is an absent field
ApplyConfigUpdate(cfg, update) ==
  [cfg EXCEPT
     !.priority = IF update.priority # Nil THEN update.priority[1] ELSE @,
     !.statusCode = IF update.statusCode # Nil THEN update.statusCode[1]
                    ELSE @,
     !.body = IF update.body # Nil THEN update.body[1] ELSE @,
     !.enabled = IF update.enabled # Nil THEN update.enabled[1] ELSE @]

UpdateResponseConfig(id, update) ==
  /\ responseConfigs[id] # NoCfg
  /\ LET cfg == ApplyConfigUpdate(responseConfigs[id], update)
     IN /\ responseConfigs' = [responseConfigs EXCEPT ![id] = cfg]
        /\ diskRespBody' = SaveResponseBody(diskRespBody, cfg)
        /\ diskRespJson' = SaveResponseJson(diskRespJson, cfg)
  /\ Answered
  /\ NotAToggle
  /\ UNCHANGED <<specs, operations, nextSpec, nextCfg, diskSpecJson,
                 diskSpecContent, traceVars, routes, reloadVars>>

DeleteResponseConfig(id) ==
  /\ responseConfigs[id] # NoCfg
  /\ responseConfigs' = [responseConfigs EXCEPT ![id] = NoCfg]
  /\ diskRespJson' = DeleteResponseFile(diskRespJson, id)
  /\ diskRespBody' = DeleteResponseFile(diskRespBody, id)
  /\ Answered
  /\ NotAToggle
  /\ UNCHANGED <<specs, operations, nextSpec, nextCfg, diskSpecJson,
                 diskSpecContent, traceVars, routes, reloadVars>>

UpdateResponsePriority(id, priority) ==
  /\ responseConfigs[id] # NoCfg
  /\ LET cfg == [responseConfigs[id] EXCEPT !.priority = priority]
     IN /\ responseConfigs' = [responseConfigs EXCEPT ![id] = cfg]
        /\ diskRespBody' = SaveResponseBody(diskRespBody, cfg)
        /\ diskRespJson' = SaveResponseJson(diskRespJson, cfg)
  /\ Answered
  /\ NotAToggle
  /\ UNCHANGED <<specs, operations, nextSpec, nextCfg, diskSpecJson,
                 diskSpecContent, traceVars, routes, reloadVars>>

(***************************************************************************)
(* Engine.ServeHTTP                                                        *)
(***************************************************************************)
\* the loop over the rules: the first enabled rule whose conditions hold,
\* 0 when the loop ends without one
SelectConfig(rc, order, data) ==
  LET hits == {i \in 1..Len(order) :
                 /\ rc[order[i]].enabled
                 /\ EvaluateAll(rc[order[i]].conditions, data)}
  IN IF hits = {} THEN 0
     ELSE order[CHOOSE i \in hits : \A j \in hits : i <= j]

ProcessHeaders(headers, ctx) ==
  [k \in DOMAIN headers |-> Process(headers[k], ctx)]

\* w.Header().Get("Content-Type") == "" decides on the default
KeepHeaders(headers) == headers

WithDefaultContentType(headers) ==
  IF "Content-Type" \notin DOMAIN headers \/ headers["Content-Type"] = ""
  THEN Put(headers, "Content-Type", "application/json")
  ELSE headers

\* http.NotFound
NotFoundResponse ==
  [via |-> "notfound", matched |-> FALSE, statusCode |-> 404,
   headers |-> Put(EmptyMap, "Content-Type", "text/plain; charset=utf-8"),
   body |-> "404 page not found\n"]

ExampleResponse(r, data, tracing) ==
  LET example == r.op.example
  IN [via |-> "example", matched |-> TRUE, specId |-> r.specId,
      opId |-> r.op.id, data |-> data, config |-> 0,
      matchedConfig |-> "spec-example", tracing |-> tracing,
      statusCode |-> example.statusCode,
      headers |-> IF example.body # ""
                  THEN WithDefaultContentType(example.headers)
                  ELSE example.headers,
      body |-> example.body]

NoMatchResponse(r, data, tracing) ==
  [via |-> "nomatch", matched |-> TRUE, specId |-> r.specId,
   opId |-> r.op.id, data |-> data, config |-> 0,
   matchedConfig |-> "", tracing |-> tracing,
   statusCode |-> 404, headers |-> EmptyMap, body |-> NoMatchBody]

RuleResponseOK(r, data, tracing, cfg) ==
  [via |-> "rule", matched |-> TRUE, specId |-> r.specId,
   opId |-> r.op.id, data |-> data, config |-> cfg.id,
   matchedConfig |-> "rule", tracing |-> tracing,
   statusCode |-> 200,
   headers |-> WithDefaultContentType(ProcessHeaders(cfg.headers, data)),
   body |-> Process(cfg.body, data)]

RuleResponse(r, data, tracing, cfg) ==
  [via |-> "rule", matched |-> TRUE, specId |-> r.specId,
   opId |-> r.op.id, data |-> data, config |-> cfg.id,
   matchedConfig |-> "rule", tracing |-> tracing,
   statusCode |-> cfg.statusCode,
   headers |-> WithDefaultContentType(ProcessHeaders(cfg.headers, data)),
   body |-> Process(cfg.body, data)]

\* the fields of the trace the model keeps
TraceOf(resp) ==
  [id |-> NoId, specId |-> resp.specId, matchedConfig |-> resp.matchedConfig]

\* the end of the rule branch and of the example branch
StatsThenTrace(resp) ==
  /\ stats' = RecordRequest(stats, resp.statusCode >= 400)
  /\ IF resp.tracing THEN RecordTraceCall(TraceOf(resp))
     ELSE UNCHANGED traceVars

\* the end of the branches that return before the statistics
NothingRecorded == UNCHANGED <<stats, traceVars>>

\* the rules the selection loop walks: none when the store returned an error
RulesDespiteError(order, err) == order

RulesIfNoError(order, err) == IF err THEN <<>> ELSE order

\* err: whether store.GetResponseConfigsByOperation returns an error
ServeHTTPOn(req, err) ==
  /\ stats.requests < MaxRequests
  /\ nextTrace <= MaxRecords
  /\ LET idx == MatchRoute(routes, req.method, req.path)
     IN IF idx = 0
        THEN /\ last' = NotFoundResponse
             /\ NothingRecorded
        ELSE LET r == routes[req.method][idx]
                 data == [pathParams |-> PathParamsOf(r.pattern, req.path),
                          query |-> req.query,
                          headers |-> req.headers,
                  body |-> req.body]
                 tracing == specs[r.specId].tracing
             IN \E order \in GetResponseConfigsByOperation(responseConfigs,
                                                           r.op.id) :
                  LET matchedConfig ==
                        SelectConfig(responseConfigs,
                                     RulesIfNoError(order, err), data)
                  IN IF matchedConfig = 0 /\ r.op.example # NoExample
                     THEN /\ last' = ExampleResponse(r, data, tracing)
                          /\ StatsThenTrace(last')
                     ELSE IF matchedConfig = 0
                     THEN /\ last' = NoMatchResponse(r, data, tracing)
                          /\ NothingRecorded
                     ELSE /\ last' = RuleResponse(r, data, tracing,
                                         responseConfigs[matchedConfig])
                          /\ StatsThenTrace(last')
  /\ UNCHANGED <<storeVars, diskVars, routes, reloadVars, callVars,
                 historyVars, serveVars>>

\* the stores of this repository return no error from the lookup
ServeHTTP(req) == ServeHTTPOn(req, FALSE)

(***************************************************************************)
(* Process restart on the same data directory: NewFileStorage (loadAll),   *)
(* NewCollector, tracing.NewService, NewEngine                             *)
(***************************************************************************)
Restart ==
  /\ specs' = LoadSpecs(diskSpecJson, diskSpecContent)
  /\ operations' = LoadOperations(specs')
  /\ responseConfigs' = LoadResponseConfigs(diskRespJson, diskRespBody)
  /\ UNCHANGED <<nextSpec, nextCfg, diskVars>>
  /\ stats' = NoStats
  /\ traces' = <<>>
  /\ recorded' = <<>>
  /\ subscribers' = {}
  /\ chanBuf' = [s \in SubIds |-> <<>>]
  /\ mu' = NoProc
  /\ pc' = [p \in Recorders |-> "idle"]
  /\ cur' = [p \in Recorders |-> NoTrace]
  /\ pending' = [p \in Recorders |-> {}]
  /\ target' = [p \in Recorders |-> 0]
  /\ outcome' = [p \in Recorders |-> [s \in SubIds |-> NotOffered]]
  /\ UNCHANGED <<maxTraces, subClosed, chanClosed, nextSub, nextTrace,
                 sendPanic, closePanic>>
  /\ ReloadRoutesCall(specs', operations')
  /\ last' = Started
  /\ ccall' = NoCall
  /\ dcall' = NoCall
  /\ ws' = [c \in Conns |-> NoConn]
  /\ ucall' = NoUpdate
  /\ mux' = NewMuxListener
  /\ scall' = [h \in Servers |-> NoServe]
  /\ UNCHANGED now
  /\ NotAToggle

(***************************************************************************)
(* Engine.ReloadRoutes step by step, beside lookups of other goroutines    *)
(***************************************************************************)
\* byte order of the tokens
TokenRank(tok) ==
  CASE tok = "/" -> 1
    [] tok = "7" -> 2
    [] tok = "api" -> 3
    [] tok = "files" -> 4
    [] tok = "me" -> 5
    [] tok = "pets" -> 6
    [] tok = "users" -> 7
    [] tok = "{id}" -> 8
    [] OTHER -> 9

RECURSIVE StrLess(_, _)
StrLess(a, b) ==
  IF b = <<>> THEN FALSE
  ELSE IF a = <<>> THEN TRUE
  ELSE IF Head(a) # Head(b) THEN TokenRank(Head(a)) < TokenRank(Head(b))
  ELSE StrLess(Tail(a), Tail(b))

\* GetOperationsBySpec: by path, then by method
OpBefore(a, b) ==
  IF a.path # b.path THEN StrLess(a.path, b.path)
  ELSE a.method = "GET" /\ b.method = "POST"

OperationsInOrder(ops, specID) ==
  CHOOSE order \in Perms(GetOperationsBySpec(ops, specID)) :
    \A i, j \in 1..Len(order) : i < j => OpBefore(order[i], order[j])

RECURSIVE AppendRoutes(_, _, _)
AppendRoutes(table, spec, ops) ==
  IF ops = <<>> THEN table
  ELSE LET op == Head(ops)
       IN AppendRoutes([table EXCEPT ![op.method] =
                          Append(@, BuildRoute(spec, op))], spec, Tail(ops))

SortOutcomes(rs) ==
  {order \in Perms({rs[i] : i \in 1..Len(rs)}) : SortedRoutes(order)}

NotLocked == FALSE

\* e.mu.Lock()
LockWriter == TRUE

\* an admin handler up to its ReloadRoutes call
CreateSpecBegin(id, input) ==
  /\ rpc = "idle"
  /\ CreateSpecStore(id, input)
  /\ rpc' = "lock"
  /\ Answered
  /\ UNCHANGED <<routes, emu, rtodo, lpc, committed>>

EnableSpecBegin(id) ==
  /\ rpc = "idle"
  /\ SetEnabledStore(id, TRUE)
  /\ rpc' = "lock"
  /\ Answered
  /\ UNCHANGED <<routes, emu, rtodo, lpc, committed>>

DisableSpecBegin(id) ==
  /\ rpc = "idle"
  /\ SetEnabledStore(id, FALSE)
  /\ rpc' = "lock"
  /\ Answered
  /\ UNCHANGED <<routes, emu, rtodo, lpc, committed>>

ReloadLock ==
  /\ rpc = "lock"
  /\ ~emu.writer
  /\ emu.readers = {}
  /\ emu' = [emu EXCEPT !.writer = LockWriter]
  /\ rpc' = "clear"
  /\ UNCHANGED <<traceVars, storeVars, diskVars, callVars, historyVars,
                 serveVars, engineVars, rtodo, lpc,
                 committed>>

\* the table is emptied, then the enabled specs are fetched
ReloadClear ==
  /\ rpc = "clear"
  /\ routes' = NoRoutes
  /\ rtodo' \in Perms(GetEnabledSpecs(specs))
  /\ rpc' = "specs"
  /\ UNCHANGED <<traceVars, storeVars, diskVars, callVars, historyVars,
                 serveVars, stats, last, emu, lpc,
                 committed>>

\* one turn of the loop over the specs
ReloadSpecStep ==
  /\ rpc = "specs"
  /\ rtodo # <<>>
  /\ routes' = AppendRoutes(routes, specs[Head(rtodo)],
                            OperationsInOrder(operations, Head(rtodo)))
  /\ rtodo' = Tail(rtodo)
  /\ UNCHANGED <<traceVars, storeVars, diskVars, callVars, historyVars,
                 serveVars, stats, last, emu, rpc, lpc,
                 committed>>

\* the sort of every method's routes, and the deferred Unlock
ReloadSort ==
  /\ rpc = "specs"
  /\ rtodo = <<>>
  /\ LET sorted == [m \in Methods |-> SortOutcomes(routes[m])]
     IN routes' \in {t \in [Methods -> UNION {sorted[m] : m \in Methods}] :
                       \A m \in Methods : t[m] \in sorted[m]}
  /\ committed' = routes'
  /\ emu' = [emu EXCEPT !.writer = FALSE]
  /\ rpc' = "idle"
  /\ UNCHANGED <<traceVars, storeVars, diskVars, callVars, historyVars,
                 serveVars, stats, last, rtodo, lpc>>

\* ServeHTTP: e.mu.RLock()
LookupRLock(l) ==
  /\ lpc[l] = "idle"
  /\ ~emu.writer
  /\ emu' = [emu EXCEPT !.readers = @ \cup {l}]
  /\ lpc' = [lpc EXCEPT ![l] = "match"]
  /\ UNCHANGED <<traceVars, storeVars, diskVars, callVars, historyVars,
                 serveVars, engineVars, rpc, rtodo,
                 committed>>

\* ServeHTTP: matchRoute and e.mu.RUnlock()
LookupMatch(l, req) ==
  /\ lpc[l] = "match"
  /\ last' = [via |-> "lookup", req |-> req,
              route |-> MatchRoute(routes, req.method, req.path)]
  /\ emu' = [emu EXCEPT !.readers = @ \ {l}]
  /\ lpc' = [lpc EXCEPT ![l] = "idle"]
  /\ UNCHANGED <<traceVars, storeVars, diskVars, callVars, historyVars,
                 serveVars, routes, stats, rpc, rtodo,
                 committed>>

(***************************************************************************)
(* Handler.CreateSpec and Handler.DeleteSpec step by step: every call to   *)
(* the store takes and releases the store's lock, and other handlers run   *)
(* in between                                                              *)
(***************************************************************************)
\* Parse, then store.CreateSpec
CreateSpecParse(id, input) ==
  /\ ccall = NoCall
  /\ nextSpec <= MaxSpecs
  /\ id = SpecIdPool[nextSpec]
  /\ LET spec == ParseSpec(id, input)
         ops == ExtractOperations(input.content, spec.id, spec.basePath)
     IN /\ specs' = [specs EXCEPT ![spec.id] = spec]
        /\ diskSpecContent' = SaveSpecContent(diskSpecContent, spec)
        /\ diskSpecJson' = SaveSpecJson(diskSpecJson, spec)
        /\ uploaded' = [uploaded EXCEPT ![id] = Some(Upload(input, spec, ops))]
        /\ ccall' = [pc |-> "ops", id |-> id, todo |-> ops]
  /\ toggles' = NoToggles
  /\ nextSpec' = nextSpec + 1
  /\ UNCHANGED <<operations, responseConfigs, nextCfg, diskRespJson,
                 diskRespBody, traceVars, engineVars, reloadVars, dcall, ws, ucall, mux,
                 serveVars>>

\* one turn of the loop over the parsed operations: store.CreateOperation,
\* and the rollback of the spec when it fails
CreateSpecOperation ==
  /\ ccall.pc = "ops"
  /\ \E op \in ccall.todo :
       IF op.id \in OperationIds(operations)
       THEN /\ specs' = [specs EXCEPT ![ccall.id] = NoSpec]
            /\ diskSpecJson' =
                 IF specs[ccall.id] # NoSpec
                 THEN DeleteSpecJson(diskSpecJson, ccall.id) ELSE diskSpecJson
            /\ diskSpecContent' =
                 IF specs[ccall.id] # NoSpec
                 THEN DeleteSpecContent(diskSpecContent, ccall.id)
                 ELSE diskSpecContent
            /\ ccall' = NoCall
            /\ UNCHANGED operations
       ELSE /\ operations' = operations \cup {op}
            /\ ccall' = [ccall EXCEPT !.todo = @ \ {op}]
            /\ UNCHANGED <<specs, diskSpecJson, diskSpecContent>>
  /\ UNCHANGED <<responseConfigs, nextSpec, nextCfg, diskRespJson,
                 diskRespBody, traceVars, engineVars, reloadVars, dcall, ws, ucall, mux,
                 historyVars, serveVars>>

\* after the loop: ReloadRoutes and the answer
CreateSpecReload ==
  /\ ccall.pc = "ops"
  /\ ccall.todo = {}
  /\ ReloadRoutesCall(specs, operations)
  /\ ccall' = NoCall
  /\ last' = NoResponse
  /\ UNCHANGED <<storeVars, diskVars, traceVars, stats, dcall, ws, ucall, mux, historyVars, serveVars>>

\* store.GetOperationsBySpec
DeleteSpecGetOps(id) ==
  /\ dcall = NoCall
  /\ dcall' = [pc |-> "rules", id |-> id,
               todo |-> OperationIds(GetOperationsBySpec(operations, id))]
  /\ UNCHANGED <<storeVars, diskVars, traceVars, engineVars, reloadVars,
                 ccall, ws, ucall, mux, historyVars, serveVars>>

\* one turn of the loop: store.DeleteResponseConfigsByOperation
DeleteSpecRules ==
  /\ dcall.pc = "rules"
  /\ \E opID \in dcall.todo :
       LET gone == {c \in CfgIdsOf(responseConfigs) :
                      responseConfigs[c].operationId = opID}
       IN /\ responseConfigs' =
               [c \in CfgIds |->
                  IF c \in gone THEN NoCfg ELSE responseConfigs[c]]
          /\ diskRespJson' =
               [c \in CfgIds |-> IF c \in gone THEN NoFile ELSE diskRespJson[c]]
          /\ diskRespBody' =
               [c \in CfgIds |-> IF c \in gone THEN NoFile ELSE diskRespBody[c]]
          /\ dcall' = [dcall EXCEPT !.todo = @ \ {opID}]
  /\ UNCHANGED <<specs, operations, nextSpec, nextCfg, diskSpecJson,
                 diskSpecContent, traceVars, engineVars, reloadVars, ccall, ws, ucall, mux,
                 historyVars, serveVars>>

\* after the loop: store.DeleteOperationsBySpec
DeleteSpecOperations ==
  /\ dcall.pc = "rules"
  /\ dcall.todo = {}
  /\ operations' = operations \ GetOperationsBySpec(operations, dcall.id)
  /\ dcall' = [dcall EXCEPT !.pc = "spec"]
  /\ UNCHANGED <<specs, responseConfigs, nextSpec, nextCfg, diskVars,
                 traceVars, engineVars, reloadVars, ccall, ws, ucall, mux, historyVars, serveVars>>

\* store.DeleteSpec: not found, or ClearTracesBySpec, ReloadRoutes and the
\* answer
DeleteSpecFinish ==
  /\ dcall.pc = "spec"
  /\ IF specs[dcall.id] = NoSpec
     THEN UNCHANGED <<specs, diskSpecJson, diskSpecContent, traceVars, routes,
                      reloadVars, toggles>>
     ELSE /\ specs' = [specs EXCEPT ![dcall.id] = NoSpec]
          /\ diskSpecJson' = DeleteSpecJson(diskSpecJson, dcall.id)
          /\ diskSpecContent' = DeleteSpecContent(diskSpecContent, dcall.id)
          /\ ClearTracesBySpecCall(dcall.id)
          /\ ReloadRoutesCall(specs', operations)
          /\ toggles' = NoToggles
  /\ dcall' = NoCall
  /\ last' = NoResponse
  /\ UNCHANGED <<operations, responseConfigs, nextSpec, nextCfg,
                 diskRespJson, diskRespBody, stats, ccall, ws, ucall, mux, uploaded,
                 serveVars>>

(***************************************************************************)
(* Engine.ServeHTTP step by step: what a request holds, what it writes to  *)
(* the ResponseWriter and when. Only the sleep takes time on the clock.    *)
(***************************************************************************)
\* a call that has read the clock and nothing else yet
NewServe(req) ==
  [pc |-> "rlock", req |-> req, start |-> now, wrote |-> <<>>,
   route |-> Nil, data |-> Nil, cfg |-> NoCfg, wake |-> 0]

\* defer e.mu.RUnlock(): the read lock is kept to the end of the call
RUnlockDeferred(h) == emu

\* e.mu.RUnlock() right after matchRoute
RUnlock(h) == [emu EXCEPT !.readers = @ \ {h}]

NeverSleep(cfg) == "headers"

\* if matchedConfig.Delay > 0: the position after the selection
AfterSelection(cfg) == IF cfg.delay > 0 THEN "sleep" ELSE "headers"

\* matchedConfig is the pointer the store holds: a field is read when the
\* call comes to it, from the rule as it is then; the call record keeps
\* what was read
Pointee(cfg) ==
  IF responseConfigs[cfg.id] # NoCfg THEN responseConfigs[cfg.id] ELSE cfg

\* startTime := time.Now()
ServeStart(h, req) ==
  /\ scall[h] = NoServe
  /\ stats.requests < MaxRequests
  /\ nextTrace <= MaxRecords
  /\ scall' = [scall EXCEPT ![h] = NewServe(req)]
  /\ UNCHANGED <<traceVars, storeVars, diskVars, engineVars, reloadVars,
                 callVars, historyVars, now>>

\* e.mu.RLock()
ServeRLock(h) ==
  /\ scall[h].pc = "rlock"
  /\ ~emu.writer
  /\ emu' = [emu EXCEPT !.readers = @ \cup {h}]
  /\ scall' = [scall EXCEPT ![h].pc = "match"]
  /\ UNCHANGED <<traceVars, storeVars, diskVars, engineVars, rpc, rtodo, lpc,
                 committed, callVars, historyVars, now>>

\* matchRoute, e.mu.RUnlock() and http.NotFound when no route matches
ServeMatch(h) ==
  /\ scall[h].pc = "match"
  /\ LET req == scall[h].req
         idx == MatchRoute(routes, req.method, req.path)
     IN IF idx = 0
        THEN /\ last' = NotFoundResponse
             /\ scall' = [scall EXCEPT ![h] = NoServe]
        ELSE /\ scall' = [scall EXCEPT ![h].pc = "select",
                                       ![h].route = Some(routes[req.method][idx])]
             /\ UNCHANGED last
  /\ emu' = RUnlock(h)
  /\ UNCHANGED <<traceVars, storeVars, diskVars, routes, stats, rpc, rtodo,
                 lpc, committed, callVars, historyVars, now>>

\* the request data, the rules of the operation and the selection loop; the
\* example branch and the structured 404 end the call here
ServeSelect(h) ==
  /\ scall[h].pc = "select"
  /\ LET req == scall[h].req
         r == scall[h].route[1]
         data == [pathParams |-> PathParamsOf(r.pattern, req.path),
                  query |-> req.query,
                  headers |-> req.headers,
                  body |-> req.body]
         tracing == specs[r.specId].tracing
     IN \E order \in GetResponseConfigsByOperation(responseConfigs, r.op.id) :
          LET matchedConfig ==
                SelectConfig(responseConfigs, RulesIfNoError(order, FALSE),
                             data)
          IN IF matchedConfig = 0 /\ r.op.example # NoExample
             THEN /\ last' = ExampleResponse(r, data, tracing)
                  /\ StatsThenTrace(last')
                  /\ scall' = [scall EXCEPT ![h] = NoServe]
             ELSE IF matchedConfig = 0
             THEN /\ last' = NoMatchResponse(r, data, tracing)
                  /\ NothingRecorded
                  /\ scall' = [scall EXCEPT ![h] = NoServe]
             ELSE LET cfg == responseConfigs[matchedConfig]
                  IN /\ scall' = [scall EXCEPT
                                    ![h].pc = AfterSelection(cfg),
                                    ![h].data = Some(data),
                                    ![h].cfg = cfg,
                                    ![h].wrote = <<"selected">>]
                     /\ UNCHANGED <<last, stats, traceVars>>
  /\ UNCHANGED <<storeVars, diskVars, routes, reloadVars, callVars,
                 historyVars, now>>

\* time.Sleep begins
ServeSleep(h) ==
  /\ scall[h].pc = "sleep"
  /\ scall' = [scall EXCEPT
                  ![h].pc = "asleep",
                  ![h].cfg.delay = Pointee(scall[h].cfg).delay,
                  ![h].wake = now + Pointee(scall[h].cfg).delay]
  /\ UNCHANGED <<traceVars, storeVars, diskVars, engineVars, reloadVars,
                 callVars, historyVars, now>>

\* time.Sleep returns
ServeWake(h) ==
  /\ scall[h].pc = "asleep"
  /\ now >= scall[h].wake
  /\ scall' = [scall EXCEPT ![h].pc = "headers",
                            ![h].wrote = Append(@, "slept")]
  /\ UNCHANGED <<traceVars, storeVars, diskVars, engineVars, reloadVars,
                 callVars, historyVars, now>>

\* ProcessHeaders, w.Header().Set for every header, the default content type
ServeHeaders(h) ==
  /\ scall[h].pc = "headers"
  /\ scall' = [scall EXCEPT ![h].pc = "status",
                            ![h].cfg.headers = Pointee(scall[h].cfg).headers,
                            ![h].wrote = Append(@, "headers")]
  /\ UNCHANGED <<traceVars, storeVars, diskVars, engineVars, reloadVars,
                 callVars, historyVars, now>>

\* Process of the body, then w.WriteHeader(matchedConfig.StatusCode)
ServeWriteHeader(h) ==
  /\ scall[h].pc = "status"
  /\ scall' = [scall EXCEPT
                  ![h].pc = "body",
                  ![h].cfg.body = Pointee(scall[h].cfg).body,
                  ![h].cfg.statusCode = Pointee(scall[h].cfg).statusCode,
                  ![h].wrote = Append(@, "status")]
  /\ UNCHANGED <<traceVars, storeVars, diskVars, engineVars, reloadVars,
                 callVars, historyVars, now>>

\* w.Write(responseBody)
ServeWrite(h) ==
  /\ scall[h].pc = "body"
  /\ scall' = [scall EXCEPT ![h].pc = "record",
                            ![h].wrote = Append(@, "body")]
  /\ UNCHANGED <<traceVars, storeVars, diskVars, engineVars, reloadVars,
                 callVars, historyVars, now>>

\* time.Since(startTime), RecordRequest, RecordTrace and the return
ServeRecord(h) ==
  /\ scall[h].pc = "record"
  /\ LET c == scall[h]
         r == c.route[1]
         response == RuleResponse(r, c.data[1], specs[r.specId].tracing, c.cfg)
     IN /\ last' = [via |-> "served", response |-> response,
                    wrote |-> c.wrote, delay |-> c.cfg.delay,
                    duration |-> now - c.start]
        /\ StatsThenTrace(response)
  /\ scall' = [scall EXCEPT ![h] = NoServe]
  /\ UNCHANGED <<storeVars, diskVars, routes, reloadVars, callVars,
                 historyVars, now>>

\* a call that can take its next step at once
Runnable(h) ==
  /\ scall[h].pc # "idle"
  /\ scall[h].pc = "asleep" => now >= scall[h].wake
  /\ scall[h].pc = "rlock" => ~emu.writer

\* the clock moves when nothing can run: every call is asleep or waits for a
\* lock, and so does ReloadRoutes; it is read by calls in flight only, so it
\* stands still while none sleeps
Tick ==
  /\ now < MaxTime
  /\ \E h \in Servers : scall[h].pc = "asleep"
  /\ \A h \in Servers : ~Runnable(h)
  /\ rpc = "idle" \/ (rpc = "lock" /\ (emu.writer \/ emu.readers # {}))
  /\ now' = now + 1
  /\ UNCHANGED <<traceVars, storeVars, diskVars, engineVars, reloadVars,
                 callVars, historyVars, scall>>

(***************************************************************************)
(* tlsutil.MuxListener: the accept loop, handleConn, Close, and Accept on  *)
(* the listeners it hands out. A queue is the number of connections in     *)
(* the channel.                                                            *)
(***************************************************************************)
muxElse == <<traceVars, storeVars, diskVars, engineVars, reloadVars, ccall,
             dcall, ws, ucall, historyVars, serveVars>>

\* serve: inner.Accept returns a connection and go handleConn starts
MuxServeAccept ==
  /\ mux.serve = "accept"
  /\ ~mux.innerClosed
  /\ mux.accepted < MaxAccepted
  /\ mux' = [mux EXCEPT !.accepted = @ + 1,
                        !.handlers[mux.accepted + 1].pc = "peek"]
  /\ UNCHANGED muxElse

\* serve: inner.Accept returns an error: always on a closed listener, and
\* at any time on an open one
MuxServeAcceptFails ==
  /\ mux.serve = "accept"
  /\ mux.innerClosed
  /\ mux' = [mux EXCEPT !.serve = "failed"]
  /\ UNCHANGED muxElse

MuxServeAcceptTransient ==
  /\ mux.serve = "accept"
  /\ ~mux.innerClosed
  /\ mux' = [mux EXCEPT !.serve = "failed"]
  /\ UNCHANGED muxElse

\* serve: select { case <-ml.closed: return; default: continue }
MuxServeSelect ==
  /\ mux.serve = "failed"
  /\ mux' = [mux EXCEPT !.serve = IF mux.closed THEN "done" ELSE "accept"]
  /\ UNCHANGED muxElse

\* handleConn: the first byte, or no byte
FirstBytes == {"none", "tls", "plain"}

HandleConnPeek(n, first) ==
  /\ mux.handlers[n].pc = "peek"
  /\ mux' = [mux EXCEPT !.handlers[n] =
               IF first = "none" THEN [pc |-> "done", tls |-> FALSE]
               ELSE [pc |-> "check", tls |-> first = "tls"]]
  /\ UNCHANGED muxElse

\* handleConn: select { case <-ml.closed: Close, return; default: }
HandleConnCheck(n) ==
  /\ mux.handlers[n].pc = "check"
  /\ mux' = [mux EXCEPT !.handlers[n].pc =
               IF mux.closed THEN "done" ELSE "route"]
  /\ UNCHANGED muxElse

QueueOf(handler) == IF handler.tls THEN "https" ELSE "http"

\* handleConn: the send case of the last select
HandleConnSend(n) ==
  /\ mux.handlers[n].pc = "route"
  /\ mux.conns[QueueOf(mux.handlers[n])] < MuxQueueCap
  /\ mux' = [mux EXCEPT !.handlers[n].pc = "done",
                        !.conns[QueueOf(mux.handlers[n])] = @ + 1]
  /\ UNCHANGED muxElse

\* handleConn: the closed case of the last select
HandleConnClosed(n) ==
  /\ mux.handlers[n].pc = "route"
  /\ mux.closed
  /\ mux' = [mux EXCEPT !.handlers[n].pc = "done"]
  /\ UNCHANGED muxElse

\* Close: ml.closeOnce.Do(func() { close(ml.closed) })
MuxCloseOnce(c) ==
  /\ mux.closers[c] = "idle"
  /\ mux' = IF mux.once
            THEN [mux EXCEPT !.closers[c] = "inner"]
            ELSE [mux EXCEPT !.closers[c] = "inner",
                             !.once = TRUE,
                             !.closePanic = @ \/ mux.closed,
                             !.closed = TRUE]
  /\ UNCHANGED muxElse

\* Close: return ml.inner.Close()
MuxCloseInner(c) ==
  /\ mux.closers[c] = "inner"
  /\ mux' = [mux EXCEPT !.closers[c] = "returned", !.innerClosed = TRUE]
  /\ UNCHANGED muxElse

\* chanListener.Accept: the call reaches its select
ChanAccept(l) ==
  /\ mux.acceptors[l].pc = "idle"
  /\ mux' = [mux EXCEPT !.acceptors[l] = [pc |-> "select", got |-> "none"]]
  /\ UNCHANGED muxElse

\* case conn := <-cl.conns
ChanAcceptConn(l) ==
  /\ mux.acceptors[l].pc = "select"
  /\ mux.conns[l] > 0
  /\ mux' = [mux EXCEPT !.acceptors[l] = [pc |-> "idle", got |-> "conn"],
                        !.conns[l] = @ - 1]
  /\ UNCHANGED muxElse

\* case <-cl.closed
ChanAcceptClosed(l) ==
  /\ mux.acceptors[l].pc = "select"
  /\ mux.closed
  /\ mux' = [mux EXCEPT !.acceptors[l] = [pc |-> "idle", got |-> "EOF"]]
  /\ UNCHANGED muxElse

(***************************************************************************)
(* File store writes that fail: the in-memory store is written first, then *)
(* saveSpec or saveResponseConfig writes the data file (content or body)   *)
(* and the metadata file, and returns the error of the os.WriteFile that   *)
(* failed. The handler answers 500 and reloads nothing.                    *)
(***************************************************************************)
\* the os.WriteFile that fails
WriteFaults == {"data", "json"}

SaveSpecFailing(fault, spec) ==
  /\ fault = "data" => spec.content # NoContent
  /\ diskSpecContent' =
       IF fault = "json" THEN SaveSpecContent(diskSpecContent, spec)
       ELSE diskSpecContent
  /\ UNCHANGED diskSpecJson

SaveResponseConfigFailing(fault, cfg) ==
  /\ fault = "data" => cfg.body # ""
  /\ diskRespBody' =
       IF fault = "json" THEN SaveResponseBody(diskRespBody, cfg)
       ELSE diskRespBody
  /\ UNCHANGED diskRespJson

CreateSpecFails(id, input, fault) ==
  /\ nextSpec <= MaxSpecs
  /\ id = SpecIdPool[nextSpec]
  /\ LET spec == ParseSpec(id, input)
     IN /\ specs' = [specs EXCEPT ![spec.id] = spec]
        /\ SaveSpecFailing(fault, spec)
  /\ nextSpec' = nextSpec + 1
  /\ NotAToggle
  /\ Answered
  /\ UNCHANGED <<operations, responseConfigs, nextCfg, diskRespJson,
                 diskRespBody, traceVars, routes, reloadVars>>

UpdateSpecFails(id, update, fault) ==
  /\ specs[id] # NoSpec
  /\ LET spec == ApplySpecUpdate(specs[id], update)
     IN /\ specs' = [specs EXCEPT ![id] = spec]
        /\ operations' =
             IF update.basePath # Nil
             THEN {IF o.specId = id
                   THEN [o EXCEPT !.fullPath = spec.basePath \o o.path]
                   ELSE o : o \in operations}
             ELSE operations
        /\ SaveSpecFailing(fault, spec)
  /\ NotAToggle
  /\ Answered
  /\ UNCHANGED <<responseConfigs, nextSpec, nextCfg, diskRespJson,
                 diskRespBody, traceVars, routes, reloadVars>>

CreateResponseConfigFails(opID, input, fault) ==
  /\ opID \in OperationIds(operations)
  /\ nextCfg <= MaxCfgs
  /\ LET cfg == NewResponseConfig(nextCfg, opID, input)
     IN /\ responseConfigs' = [responseConfigs EXCEPT ![cfg.id] = cfg]
        /\ SaveResponseConfigFailing(fault, cfg)
  /\ nextCfg' = nextCfg + 1
  /\ NotAToggle
  /\ Answered
  /\ UNCHANGED <<specs, operations, nextSpec, diskSpecJson, diskSpecContent,
                 traceVars, routes, reloadVars>>

(***************************************************************************)
(* Handler.UpdateResponseConfig step by step: GetResponseConfig returns    *)
(* the pointer the store holds, and the handler assigns the fields of the  *)
(* update to that object one after the other, under no lock, before it     *)
(* calls the store                                                         *)
(***************************************************************************)
\* the fields of the update in the order the handler assigns them
UpdateFields == <<"priority", "statusCode", "body", "enabled">>

AssignField(cfg, update, field) ==
  CASE field = "priority" ->
         [cfg EXCEPT !.priority =
            IF update.priority # Nil THEN update.priority[1] ELSE @]
    [] field = "statusCode" ->
         [cfg EXCEPT !.statusCode =
            IF update.statusCode # Nil THEN update.statusCode[1] ELSE @]
    [] field = "body" ->
         [cfg EXCEPT !.body =
            IF update.body # Nil THEN update.body[1] ELSE @]
    [] field = "enabled" ->
         [cfg EXCEPT !.enabled =
            IF update.enabled # Nil THEN update.enabled[1] ELSE @]

\* store.GetResponseConfig and ShouldBindJSON; versions is history: the
\* rules as they were before and as they are after every update
UpdateRuleBegin(id, update) ==
  /\ ucall.pc = "idle"
  /\ responseConfigs[id] # NoCfg
  /\ ucall' = [pc |-> "apply", id |-> id, update |-> update, field |-> 1,
               versions |-> ucall.versions \cup
                 {responseConfigs[id],
                  ApplyConfigUpdate(responseConfigs[id], update)}]
  /\ UNCHANGED <<traceVars, storeVars, diskVars, engineVars, reloadVars,
                 ccall, dcall, ws, mux, historyVars, serveVars>>

\* one `if update.X != nil { cfg.X = *update.X }`
UpdateRuleAssign ==
  /\ ucall.pc = "apply"
  /\ ucall.field <= Len(UpdateFields)
  /\ responseConfigs' =
       [responseConfigs EXCEPT ![ucall.id] =
          IF @ = NoCfg THEN @
          ELSE AssignField(@, ucall.update, UpdateFields[ucall.field])]
  /\ ucall' = [ucall EXCEPT !.field = @ + 1]
  /\ UNCHANGED <<traceVars, specs, operations, nextSpec, nextCfg, diskVars,
                 engineVars, reloadVars, ccall, dcall, ws, mux, historyVars,
                 serveVars>>

\* store.UpdateResponseConfig and the answer
UpdateRuleStore ==
  /\ ucall.pc = "apply"
  /\ ucall.field > Len(UpdateFields)
  /\ IF responseConfigs[ucall.id] # NoCfg
     THEN /\ diskRespBody' =
               SaveResponseBody(diskRespBody, responseConfigs[ucall.id])
          /\ diskRespJson' =
               SaveResponseJson(diskRespJson, responseConfigs[ucall.id])
     ELSE UNCHANGED <<diskRespBody, diskRespJson>>
  /\ ucall' = [pc |-> "idle", versions |-> ucall.versions]
  /\ last' = NoResponse
  /\ NotAToggle
  /\ UNCHANGED <<traceVars, storeVars, diskSpecJson, diskSpecContent, routes,
                 stats, reloadVars, ccall, dcall, ws, mux, serveVars>>

(***************************************************************************)
(* WebSocketHandler.ServeHTTP step by step: the stream loop, the goroutine *)
(* that reads the connection, and the client                               *)
(***************************************************************************)
wsElse == <<storeVars, diskVars, engineVars, reloadVars, ccall, dcall, ucall, mux,
            historyVars, serveVars>>

\* conn.ReadMessage returns an error once the client has closed
ReadMessageBlocks(open) == FALSE

ReadMessageFails(open) == ~open

\* conn.WriteMessage: what it can return; to a closed connection it fails,
\* or succeeds into a buffer nobody reads
WriteMessage(open) == IF open THEN {"ok"} ELSE {"ok", "error"}

\* Upgrade, Subscribe, defer Unsubscribe, go func, NewTicker
WsConnect(c) ==
  /\ ws[c].pc = "idle"
  /\ nextSub <= MaxSubs
  /\ SubscribeCall(nextSub)
  /\ ws' = [ws EXCEPT ![c] = [pc |-> "select", sub |-> nextSub,
                              open |-> TRUE, done |-> FALSE, msg |-> "none"]]
  /\ UNCHANGED wsElse

\* the client closes its connection
WsClientClose(c) ==
  /\ ws[c].pc # "idle"
  /\ ws[c].open
  /\ ws' = [ws EXCEPT ![c].open = FALSE]
  /\ UNCHANGED <<traceVars, wsElse>>

\* the reading goroutine: ReadMessage fails, defer close(done)
WsReadError(c) ==
  /\ ws[c].pc # "idle"
  /\ ~ws[c].done
  /\ ReadMessageFails(ws[c].open)
  /\ ws' = [ws EXCEPT ![c].done = TRUE]
  /\ UNCHANGED <<traceVars, wsElse>>

\* case trace, ok := <-traceChan
WsSelectTrace(c) ==
  /\ ws[c].pc = "select"
  /\ IF chanBuf[ws[c].sub] # <<>>
     THEN /\ ReceiveCall(ws[c].sub)
          /\ ws' = [ws EXCEPT ![c].pc = "write", ![c].msg = "trace"]
     ELSE /\ chanClosed[ws[c].sub]
          /\ ws' = [ws EXCEPT ![c].pc = "return"]
          /\ UNCHANGED traceVars
  /\ UNCHANGED wsElse

\* case <-ticker.C
WsSelectTicker(c) ==
  /\ ws[c].pc = "select"
  /\ ws' = [ws EXCEPT ![c].pc = "write", ![c].msg = "ping"]
  /\ UNCHANGED <<traceVars, wsElse>>

\* case <-done
WsSelectDone(c) ==
  /\ ws[c].pc = "select"
  /\ ws[c].done
  /\ ws' = [ws EXCEPT ![c].pc = "return"]
  /\ UNCHANGED <<traceVars, wsElse>>

\* conn.WriteMessage of the trace or of the ping
WsWrite(c) ==
  /\ ws[c].pc = "write"
  /\ \E err \in WriteMessage(ws[c].open) :
       ws' = [ws EXCEPT ![c].pc = IF err = "ok" THEN "select" ELSE "return",
                        ![c].msg = "none"]
  /\ UNCHANGED <<traceVars, wsElse>>

\* the deferred calls: ticker.Stop, Unsubscribe, conn.Close; the record
\* keeps what the call saw of its connection until the next call
WsReturn(c) ==
  /\ ws[c].pc = "return"
  /\ UnsubscribeCall(ws[c].sub)
  /\ ws' = [ws EXCEPT ![c].pc = "idle"]
  /\ UNCHANGED wsElse

(***************************************************************************)
(* SpecTrace                                                               *)
(***************************************************************************)
InitTrace == TraceInit(MaxTracesConfigs) /\ AppInit

NextTrace ==
  \/ \E p \in Recorders, tr \in FreshTraceInputs : RecordLock(p, tr)
  \/ \E p \in Recorders : RecordCheck(p)
  \/ \E p \in Recorders : RecordSend(p)
  \/ \E p \in Recorders : RecordUnlock(p)
  \/ \E id \in 1..MaxSubs : Subscribe(id)
  \/ \E id \in SubIds : Unsubscribe(id)
  \/ \E s \in SubIds : Receive(s)
  \/ ClearTraces
  \/ \E s \in SpecIds : ClearTracesBySpec(s)

SpecTrace == InitTrace /\ [][NextTrace]_vars

(***************************************************************************)
(* SpecDelivery: concurrent RecordTrace calls and subscribers whose        *)
(* queues keep everything they were sent                                   *)
(***************************************************************************)
InitDelivery == TraceInit(MaxTracesConfigs) /\ AppInit

NextDelivery ==
  \/ \E p \in Recorders, tr \in FreshTraceInputs : RecordLock(p, tr)
  \/ \E p \in Recorders : RecordCheck(p)
  \/ \E p \in Recorders : RecordSend(p)
  \/ \E p \in Recorders : RecordUnlock(p)
  \/ \E id \in 1..MaxSubs : Subscribe(id)
  \/ \E id \in SubIds : Unsubscribe(id)

SpecDelivery == InitDelivery /\ [][NextDelivery]_vars

(***************************************************************************)
(* SpecFanout                                                              *)
(***************************************************************************)
InitFanout == TraceInit({2}) /\ AppInit

NextFanout ==
  \/ \E p \in FanoutRecorders, tr \in PresetTraceInputs : RecordLock(p, tr)
  \/ \E p \in FanoutRecorders : RecordCheck(p)
  \/ \E p \in FanoutRecorders : RecordSend(p)
  \/ \E p \in FanoutRecorders : RecordUnlock(p)
  \/ \E id \in FanoutSubIds : Subscribe(id)
  \/ \E id \in FanoutSubIds : Unsubscribe(id)
  \/ \E s \in FanoutSubIds : Receive(s)

SpecFanout == InitFanout /\ [][NextFanout]_vars

(***************************************************************************)
(* Spec: admin handlers on rules and flags, and dispatched requests        *)
(***************************************************************************)
UsersDoc == [fmt |-> "yaml", doc |-> "users"]
PetsDoc == [fmt |-> "json", doc |-> "pets"]
FilesDoc == [fmt |-> "yaml", doc |-> "files"]
DebugHeader == Put(EmptyMap, "X-Debug", <<"1">>)
IfDebug == <<[source |-> "header", key |-> "x-debug", operator |-> "eq",
              value |-> "1"]>>

DispatchSpecIds == {"s1"}
DispatchSpecInputs == {[content |-> UsersDoc, basePath |-> <<>>]}
UsersMe == GenerateOperationID("s1", "GET", <<"/", "users", "/", "me">>)
UsersId == GenerateOperationID("s1", "GET", <<"/", "users", "/", "{id}">>)
DispatchRule(opID, priority, conditions, body, enabled) ==
  [op |-> opID,
   input |-> [priority |-> priority, conditions |-> conditions,
              statusCode |-> 0, headers |-> Nil, body |-> body,
              delay |-> 0,
              enabled |-> enabled]]
DispatchRules ==
  {DispatchRule(UsersMe, 0, Nil, "a", TRUE),
   DispatchRule(UsersMe, 0, Some(IfDebug), "a", TRUE),
   DispatchRule(UsersMe, 1, Nil, "a", TRUE),
   DispatchRule(UsersMe, 0, Nil, "a", FALSE),
   DispatchRule(UsersId, 0, Nil, "{{path.id}}", TRUE)}
DispatchRequest(path, headers) ==
  [method |-> "GET", path |-> path, query |-> EmptyMap, headers |-> headers,
   body |-> EmptyMap]
DispatchRequests ==
  {DispatchRequest(<<"/", "users", "/", "me">>, EmptyMap),
   DispatchRequest(<<"/", "users", "/", "me">>, DebugHeader),
   DispatchRequest(<<"/", "users", "/", "7">>, EmptyMap)}

Init == TraceInit({0}) /\ AppInit

Next ==
  \/ \E id \in DispatchSpecIds, input \in DispatchSpecInputs :
       CreateSpec(id, input)
  \/ \E id \in AllSpecIds : ToggleTracing(id, Nil)
  \/ \E id \in AllSpecIds, enabled \in BOOLEAN :
       ToggleExampleFallback(id, enabled)
  \/ \E rule \in DispatchRules : CreateResponseConfig(rule.op, rule.input)
  \/ \E req \in DispatchRequests : ServeHTTP(req)

Spec == Init /\ [][Next]_vars

(***************************************************************************)
(* SpecTraced: dispatched requests beside trace subscribers                *)
(***************************************************************************)
TracedSpecIds == {"s1"}
TracedSpecInputs == {[content |-> UsersDoc, basePath |-> <<>>]}
TracedRules ==
  {DispatchRule(UsersMe, 0, Some(IfDebug), "a", TRUE),
   DispatchRule(UsersId, 0, Some(IfDebug), "{{path.id}}", TRUE)}
TracedRequests == DispatchRequests

InitTraced == TraceInit({0}) /\ AppInit

\* a request that found a route
Dispatch == \E req \in TracedRequests : ServeHTTP(req)

NextTraced ==
  \/ \E id \in TracedSpecIds, input \in TracedSpecInputs :
       CreateSpec(id, input)
  \/ \E id \in TracedSpecIds : ToggleTracing(id, Nil)
  \/ \E rule \in TracedRules : CreateResponseConfig(rule.op, rule.input)
  \/ \E id \in 1..MaxSubs : Subscribe(id)
  \/ \E id \in 1..MaxSubs : Unsubscribe(id)
  \/ \E s \in 1..MaxSubs : Receive(s)
  \/ Dispatch

SpecTraced == InitTraced /\ [][NextTraced]_vars

(***************************************************************************)
(* SpecFaulty: dispatch on a store whose rule lookup can return an error   *)
(***************************************************************************)
FaultySpecIds == {"s1"}
FaultySpecInputs == {[content |-> UsersDoc, basePath |-> <<>>]}
FaultyRules ==
  {DispatchRule(UsersMe, 0, Nil, "a", TRUE),
   DispatchRule(UsersMe, 1, Some(IfDebug), "b", TRUE),
   DispatchRule(UsersId, 0, Nil, "{{path.id}}", TRUE)}
FaultyRequests ==
  DispatchRequests \cup {DispatchRequest(<<"/", "pets">>, EmptyMap)}

InitFaulty == TraceInit({0}) /\ AppInit

\* a dispatch during which the lookup of the rules fails
FailedLookup == \E req \in FaultyRequests : ServeHTTPOn(req, TRUE)

NextFaulty ==
  \/ \E id \in FaultySpecIds, input \in FaultySpecInputs :
       CreateSpec(id, input)
  \/ \E id \in FaultySpecIds : ToggleTracing(id, Nil)
  \/ \E rule \in FaultyRules : CreateResponseConfig(rule.op, rule.input)
  \/ \E req \in FaultyRequests : ServeHTTPOn(req, FALSE)
  \/ FailedLookup

SpecFaulty == InitFaulty /\ [][NextFaulty]_vars

(***************************************************************************)
(* SpecServe: requests step by step, beside each other and beside reloads  *)
(***************************************************************************)
ServeSpecIds == {"s1"}
ServeSpecInputs == {[content |-> UsersDoc, basePath |-> <<>>]}
ServeRuleInputs ==
  [priority : {0}, conditions : {Nil}, statusCode : {0}, delay : {1},
   headers : {Nil}, body : {"a"}, enabled : {TRUE}]
ServeRequests == {DispatchRequest(<<"/", "users", "/", "me">>, EmptyMap)}

InitServe == TraceInit({0}) /\ AppInit

NextServe ==
  \/ \E id \in ServeSpecIds, input \in ServeSpecInputs :
       CreateSpecBegin(id, input)
  \/ \E id \in ServeSpecIds : DisableSpecBegin(id)
  \/ ReloadLock
  \/ ReloadClear
  \/ ReloadSpecStep
  \/ ReloadSort
  \/ \E input \in ServeRuleInputs : CreateResponseConfig(UsersMe, input)
  \/ \E h \in Servers, req \in ServeRequests : ServeStart(h, req)
  \/ \E h \in Servers : ServeRLock(h)
  \/ \E h \in Servers : ServeMatch(h)
  \/ \E h \in Servers : ServeSelect(h)
  \/ \E h \in Servers : ServeSleep(h)
  \/ \E h \in Servers : ServeWake(h)
  \/ \E h \in Servers : ServeHeaders(h)
  \/ \E h \in Servers : ServeWriteHeader(h)
  \/ \E h \in Servers : ServeWrite(h)
  \/ \E h \in Servers : ServeRecord(h)
  \/ Tick

SpecServe == InitServe /\ [][NextServe]_vars

(***************************************************************************)
(* SpecOrder: one request at a time step by step, rules with and without   *)
(* a delay                                                                 *)
(***************************************************************************)
OrderSpecIds == {"s1"}
OrderSpecInputs == {[content |-> UsersDoc, basePath |-> <<>>]}
OrderServers == {"h1"}
OrderRuleInputs ==
  [priority : {0, 1}, conditions : {Nil}, statusCode : {0}, delay : {0, 1},
   headers : {Nil}, body : {"a"}, enabled : {TRUE}]
OrderRequests ==
  {DispatchRequest(<<"/", "users", "/", "me">>, EmptyMap),
   DispatchRequest(<<"/", "users", "/", "7">>, EmptyMap),
   DispatchRequest(<<"/", "pets">>, EmptyMap)}

InitOrder == TraceInit({0}) /\ AppInit

NextOrder ==
  \/ \E id \in OrderSpecIds, input \in OrderSpecInputs : CreateSpec(id, input)
  \/ \E input \in OrderRuleInputs : CreateResponseConfig(UsersMe, input)
  \/ \E h \in OrderServers, req \in OrderRequests : ServeStart(h, req)
  \/ \E h \in OrderServers : ServeRLock(h)
  \/ \E h \in OrderServers : ServeMatch(h)
  \/ \E h \in OrderServers : ServeSelect(h)
  \/ \E h \in OrderServers : ServeSleep(h)
  \/ \E h \in OrderServers : ServeWake(h)
  \/ \E h \in OrderServers : ServeHeaders(h)
  \/ \E h \in OrderServers : ServeWriteHeader(h)
  \/ \E h \in OrderServers : ServeWrite(h)
  \/ \E h \in OrderServers : ServeRecord(h)
  \/ Tick

SpecOrder == InitOrder /\ [][NextOrder]_vars

(***************************************************************************)
(* SpecEval: condition.Evaluator on conditions and request data of every   *)
(* kind                                                                    *)
(***************************************************************************)
EvalSources == {"path", "query", "header", "body", "cookie"}
EvalKeys == {"id", "x"}
EvalOperators ==
  {"eq", "ne", "contains", "notContains", "startsWith", "endsWith", "regex",
   "exists", "notExists", "gt", "lt", "gte", "lte", "like"}
NumericOperators == {"gt", "lt", "gte", "lte"}
EvalValues == {"", "7", "9", "10", "abc", "("}
EvalConditions ==
  [source : EvalSources, key : EvalKeys, operator : EvalOperators,
   value : EvalValues]
EvalData ==
  {[pathParams |-> EmptyMap, query |-> EmptyMap, headers |-> EmptyMap,
    body |-> EmptyMap],
   [pathParams |-> Put(EmptyMap, "id", "9"),
    query |-> Put(EmptyMap, "id", <<"10", "7">>),
    headers |-> Put(EmptyMap, "id", <<"abc">>),
    body |-> Put(EmptyMap, "id", "(")],
   [pathParams |-> Put(EmptyMap, "id", "abc"),
    query |-> Put(EmptyMap, "id", <<>>),
    headers |-> Put(EmptyMap, "id", <<"(">>),
    body |-> Put(EmptyMap, "id", "10")]}
\* the conditions the lists of EvaluateAll are made of
ListedConditions ==
  {[source |-> "path", key |-> "id", operator |-> "exists", value |-> ""],
   [source |-> "query", key |-> "id", operator |-> "gt", value |-> "9"],
   [source |-> "header", key |-> "id", operator |-> "regex", value |-> "("]}
EvalLists == UNION {[1..n -> ListedConditions] : n \in 0..MaxConds}

InitEval == TraceInit({0}) /\ AppInit

NextEval ==
  \/ \E cond \in EvalConditions, data \in EvalData : EvaluateCall(cond, data)
  \/ \E conds \in EvalLists, data \in EvalData : EvaluateAllCall(conds, data)

SpecEval == InitEval /\ [][NextEval]_vars

(***************************************************************************)
(* SpecQuery: Service.GetTraces on rings of traces that differ in every    *)
(* field a filter can set                                                  *)
(***************************************************************************)
QueryTrace ==
  [id |-> NoId, specId |-> "s1", operationId |-> "getUser",
   request |-> [method |-> "GET"], response |-> [statusCode |-> 200],
   timestamp |-> 2]
\* the traces recorded: one that every filter below lets through, and
\* others that a filter keeps out by each of its fields
QueryTraceInputs ==
  {QueryTrace,
   [QueryTrace EXCEPT !.specId = "s2", !.operationId = "listUsers"],
   [QueryTrace EXCEPT !.request.method = "POST",
                      !.response.statusCode = 404],
   [QueryTrace EXCEPT !.timestamp = 1],
   [QueryTrace EXCEPT !.timestamp = 3]}
TraceFilters ==
  [specId : {"", "s1"}, operationId : {"", "getUser"}, method : {"", "GET"},
   statusCode : {0, 200}, startTime : {0, 2}, endTime : {0, 2},
   limit : 0..(MaxRecords - 1)]
QueryFilters == {Nil} \cup {Some(f) : f \in TraceFilters}

\* Service.RecordTrace, as one call, of a trace the dispatcher built
RecordQueried(tr) ==
  /\ nextTrace <= MaxRecords
  /\ RecordTraceCall(tr)
  /\ last' = NoResponse
  /\ UNCHANGED <<storeVars, diskVars, routes, stats, reloadVars, callVars,
                 historyVars, serveVars>>

\* Service.GetTraces, as one call; it reads only, so one query of every
\* ring is all the model takes
GetTracesCall(filter) ==
  /\ last.via # "traces"
  /\ mu = NoProc
  /\ last' = [via |-> "traces", filter |-> filter,
              result |-> GetTraces(traces, filter)]
  /\ UNCHANGED <<traceVars, storeVars, diskVars, routes, stats, reloadVars,
                 callVars, historyVars, serveVars>>

InitQuery == TraceInit({0}) /\ AppInit

NextQuery ==
  \/ \E tr \in QueryTraceInputs : RecordQueried(tr)
  \/ \E filter \in QueryFilters : GetTracesCall(filter)

SpecQuery == InitQuery /\ [][NextQuery]_vars

(***************************************************************************)
(* SpecStream: trace clients on WebSocket connections beside a dispatcher  *)
(* that records traces; SpecStreamFair adds the scheduling the runtime     *)
(* gives                                                                   *)
(***************************************************************************)
StreamRecorders == {"r1"}
StreamTraceInputs == [id : {NoId}, specId : {"s1"}]

InitStream == TraceInit({0}) /\ AppInit

NextStream ==
  \/ \E p \in StreamRecorders, tr \in StreamTraceInputs : RecordLock(p, tr)
  \/ \E p \in StreamRecorders : RecordCheck(p)
  \/ \E p \in StreamRecorders : RecordSend(p)
  \/ \E p \in StreamRecorders : RecordUnlock(p)
  \/ \E c \in Conns : WsConnect(c)
  \/ \E c \in Conns : WsClientClose(c)
  \/ \E c \in Conns : WsReadError(c)
  \/ \E c \in Conns : WsSelectTrace(c)
  \/ \E c \in Conns : WsSelectTicker(c)
  \/ \E c \in Conns : WsSelectDone(c)
  \/ \E c \in Conns : WsWrite(c)
  \/ \E c \in Conns : WsReturn(c)

SpecStream == InitStream /\ [][NextStream]_vars

\* a goroutine that can run does run: the steps of RecordTrace, the failed
\* read, the write.  select picks among its ready cases at random, so a
\* case that is ready again and again is taken; a Lock that waits is handed
\* the mutex (sync.Mutex, starvation mode)
StreamFairness ==
  /\ \A p \in StreamRecorders :
       /\ WF_vars(RecordCheck(p))
       /\ WF_vars(RecordSend(p))
       /\ WF_vars(RecordUnlock(p))
  /\ \A c \in Conns :
       /\ WF_vars(WsReadError(c))
       /\ WF_vars(WsWrite(c))
       /\ SF_vars(WsSelectDone(c))
       /\ SF_vars(WsReturn(c))

SpecStreamFair == SpecStream /\ StreamFairness

(***************************************************************************)
(* SpecHeaders: rules and examples with and without a Content-Type, and    *)
(* dispatched requests                                                     *)
(***************************************************************************)
HeadersSpecIds == {"s1"}
HeadersSpecInputs ==
  {[content |-> UsersDoc, basePath |-> <<>>],
   [content |-> PetsDoc, basePath |-> <<>>]}
PetsGet == GenerateOperationID("s1", "GET", <<"/", "pets">>)
HeadersRuleOps == {UsersMe, PetsGet}
HeadersRuleInputs ==
  [priority : {0}, conditions : {Some(IfDebug)}, statusCode : {0},
   delay : {0},
   headers : {Nil, Some(Put(EmptyMap, "Content-Type", "text/plain")),
              Some(Put(EmptyMap, "X-Request", "1"))},
   body : {"a"}, enabled : {TRUE}]
HeadersRequests ==
  {DispatchRequest(<<"/", "users", "/", "me">>, EmptyMap),
   DispatchRequest(<<"/", "users", "/", "me">>, DebugHeader),
   DispatchRequest(<<"/", "pets">>, EmptyMap),
   DispatchRequest(<<"/", "pets">>, DebugHeader)}

InitHeaders == TraceInit({0}) /\ AppInit

NextHeaders ==
  \/ \E id \in HeadersSpecIds, input \in HeadersSpecInputs :
       CreateSpec(id, input)
  \/ \E opID \in HeadersRuleOps, input \in HeadersRuleInputs :
       CreateResponseConfig(opID, input)
  \/ \E req \in HeadersRequests : ServeHTTP(req)

SpecHeaders == InitHeaders /\ [][NextHeaders]_vars

(***************************************************************************)
(* SpecRandom: the template token random.int(lo,hi) as a function of its   *)
(* parameters and of the draw                                              *)
(***************************************************************************)
RandomParams == (0 - 2)..MaxParam
IntKey(lo, hi) == IntPrefix \o Itoa(lo) \o <<",">> \o Itoa(hi) \o <<")">>
MalformedKeys ==
  {<<"i", "n", "t">>, IntPrefix \o <<")">>, IntPrefix \o <<"3", ")">>,
   IntPrefix \o <<"a", ",", "3", ")">>,
   IntPrefix \o <<"1", ",", "2", ",", "3", ")">>}

\* Engine.Process of {{random.int(lo,hi)}}
RandomIntCall(lo, hi, draw) ==
  /\ last.via = "start"
  /\ last' = [via |-> "random", lo |-> lo, hi |-> hi, key |-> IntKey(lo, hi),
              result |-> ResolveRandom(IntKey(lo, hi), draw)]
  /\ UNCHANGED <<traceVars, storeVars, diskVars, routes, stats, reloadVars,
                 callVars, historyVars, serveVars>>

\* Engine.Process of a random.int token whose parameters are not two numbers
RandomKeyCall(key, draw) ==
  /\ last.via = "start"
  /\ last' = [via |-> "randomKey", key |-> key,
              result |-> ResolveRandom(key, draw)]
  /\ UNCHANGED <<traceVars, storeVars, diskVars, routes, stats, reloadVars,
                 callVars, historyVars, serveVars>>

InitRandom == TraceInit({0}) /\ AppInit

NextRandom ==
  \/ \E lo, hi \in RandomParams, draw \in Draws : RandomIntCall(lo, hi, draw)
  \/ \E key \in MalformedKeys, draw \in Draws : RandomKeyCall(key, draw)

SpecRandom == InitRandom /\ [][NextRandom]_vars

(***************************************************************************)
(* SpecOutage: admin handlers on a store whose listing of the enabled      *)
(* specs can return an error, and dispatched requests                      *)
(***************************************************************************)
OutageSpecIds == {"s1", "s2"}
OutageSpecInputs ==
  {[content |-> UsersDoc, basePath |-> <<>>],
   [content |-> PetsDoc, basePath |-> <<"api">>]}
OutageRequests ==
  {DispatchRequest(<<"/", "users", "/", "me">>, EmptyMap),
   DispatchRequest(<<"/", "api", "/", "pets">>, EmptyMap)}

InitOutage == TraceInit({0}) /\ AppInit

\* a reload during which the store fails
FailedReload == \E id \in OutageSpecIds : EnableSpecOn(id, TRUE)

NextOutage ==
  \/ \E id \in OutageSpecIds, input \in OutageSpecInputs :
       CreateSpec(id, input)
  \/ \E id \in OutageSpecIds : DisableSpec(id)
  \/ \E id \in OutageSpecIds : EnableSpecOn(id, FALSE)
  \/ FailedReload
  \/ \E req \in OutageRequests : ServeHTTP(req)

SpecOutage == InitOutage /\ [][NextOutage]_vars

(***************************************************************************)
(* SpecUpdate: Handler.UpdateResponseConfig step by step beside a request  *)
(* that is dispatched step by step                                         *)
(***************************************************************************)
UpdateSpecIds == {"s1"}
UpdateSpecInputs == {[content |-> UsersDoc, basePath |-> <<>>]}
UpdateRuleInputs ==
  [priority : {0}, conditions : {Nil}, statusCode : {0}, delay : {0},
   headers : {Nil}, body : {"a"}, enabled : {TRUE}]
UpdateRuleUpdates ==
  {[priority |-> Nil, statusCode |-> Some(404), body |-> Some("b"),
    enabled |-> Nil]}
UpdateServers == {"h1"}
UpdateRequests == {DispatchRequest(<<"/", "users", "/", "me">>, EmptyMap)}

InitUpdate == TraceInit({0}) /\ AppInit

NextUpdate ==
  \/ \E id \in UpdateSpecIds, input \in UpdateSpecInputs : CreateSpec(id, input)
  \/ \E input \in UpdateRuleInputs :
       nextCfg = 1 /\ CreateResponseConfig(UsersMe, input)
  \/ \E id \in CfgIds, update \in UpdateRuleUpdates :
       UpdateRuleBegin(id, update)
  \/ UpdateRuleAssign
  \/ UpdateRuleStore
  \/ \E h \in UpdateServers, req \in UpdateRequests : ServeStart(h, req)
  \/ \E h \in UpdateServers : ServeRLock(h)
  \/ \E h \in UpdateServers : ServeMatch(h)
  \/ \E h \in UpdateServers : ServeSelect(h)
  \/ \E h \in UpdateServers : ServeHeaders(h)
  \/ \E h \in UpdateServers : ServeWriteHeader(h)
  \/ \E h \in UpdateServers : ServeWrite(h)
  \/ \E h \in UpdateServers : ServeRecord(h)

SpecUpdate == InitUpdate /\ [][NextUpdate]_vars

(***************************************************************************)
(* SpecDisk: admin handlers on a file store whose writes can fail, and     *)
(* restarts                                                                *)
(***************************************************************************)
DiskSpecIds == {"s1"}
DiskSpecInputs == {[content |-> UsersDoc, basePath |-> <<>>]}
DiskSpecUpdates ==
  {[basePath |-> Some(<<"api">>), enabled |-> Nil, tracing |-> Nil]}
DiskRuleOps ==
  {GenerateOperationID(id, "GET", <<"/", "users", "/", "me">>) :
     id \in DiskSpecIds}
DiskRuleInputs ==
  [priority : {0}, conditions : {Nil}, statusCode : {0}, delay : {0},
   headers : {Nil}, body : {"a"}, enabled : {TRUE}]

InitDisk == TraceInit({0}) /\ AppInit

FailedWrite ==
  \/ \E id \in DiskSpecIds, input \in DiskSpecInputs, fault \in WriteFaults :
       CreateSpecFails(id, input, fault)
  \/ \E id \in DiskSpecIds, update \in DiskSpecUpdates, fault \in WriteFaults :
       UpdateSpecFails(id, update, fault)
  \/ \E opID \in DiskRuleOps, input \in DiskRuleInputs, fault \in WriteFaults :
       CreateResponseConfigFails(opID, input, fault)

NextDisk ==
  \/ \E id \in DiskSpecIds, input \in DiskSpecInputs : CreateSpec(id, input)
  \/ \E opID \in DiskRuleOps, input \in DiskRuleInputs :
       CreateResponseConfig(opID, input)
  \/ \E id \in CfgIds : DeleteResponseConfig(id)
  \/ FailedWrite
  \/ Restart

SpecDisk == InitDisk /\ [][NextDisk]_vars

(***************************************************************************)
(* SpecMux: a MuxListener, two callers of Close and one caller of Accept   *)
(* on each of its listeners                                                *)
(***************************************************************************)
InitMux == TraceInit({0}) /\ AppInit

NextMux ==
  \/ MuxServeAccept
  \/ MuxServeAcceptFails
  \/ MuxServeAcceptTransient
  \/ MuxServeSelect
  \/ \E n \in 1..MaxAccepted, first \in FirstBytes : HandleConnPeek(n, first)
  \/ \E n \in 1..MaxAccepted : HandleConnCheck(n)
  \/ \E n \in 1..MaxAccepted : HandleConnSend(n)
  \/ \E n \in 1..MaxAccepted : HandleConnClosed(n)
  \/ \E c \in Closers : MuxCloseOnce(c)
  \/ \E c \in Closers : MuxCloseInner(c)
  \/ \E l \in Listeners : ChanAccept(l)
  \/ \E l \in Listeners : ChanAcceptConn(l)
  \/ \E l \in Listeners : ChanAcceptClosed(l)

SpecMux == InitMux /\ [][NextMux]_vars

\* a goroutine that can take a step takes one: inner.Accept on a closed
\* listener returns, the select of serve is passed, and a select of Accept
\* with a ready case returns
MuxFairness ==
  /\ WF_vars(MuxServeAcceptFails)
  /\ WF_vars(MuxServeSelect)
  /\ \A l \in Listeners : WF_vars(ChanAcceptConn(l) \/ ChanAcceptClosed(l))

SpecMuxFair == SpecMux /\ MuxFairness

(***************************************************************************)
(* SpecStore: admin handlers on the file store, and restarts               *)
(***************************************************************************)
StoreSpecIds == {"s1"}
StoreSpecInputs ==
  {[content |-> UsersDoc, basePath |-> <<>>],
   [content |-> PetsDoc, basePath |-> <<"api", "/">>]}
StoreRuleOps ==
  {GenerateOperationID(id, "GET", <<"/", "users", "/", "me">>) :
     id \in StoreSpecIds} \cup
  {GenerateOperationID(id, "POST", <<"/", "pets">>) : id \in StoreSpecIds}
StoreSpecUpdates ==
  {[basePath |-> Some(<<"api">>), enabled |-> Nil, tracing |-> Some(TRUE)]}
StoreRuleInputs ==
  [priority : {0}, conditions : {Nil}, statusCode : {0}, delay : {0},
   headers : {Nil}, body : {"", "a"}, enabled : {TRUE}]
StoreRuleUpdates ==
  {[priority |-> Nil, statusCode |-> Nil, body |-> Some(""), enabled |-> Nil],
   [priority |-> Some(1), statusCode |-> Nil, body |-> Nil,
    enabled |-> Some(FALSE)]}

InitStore == TraceInit({0}) /\ AppInit

NextStore ==
  \/ \E id \in StoreSpecIds, input \in StoreSpecInputs : CreateSpec(id, input)
  \/ \E id \in AllSpecIds, update \in StoreSpecUpdates : UpdateSpec(id, update)
  \/ \E id \in AllSpecIds : DeleteSpec(id)
  \/ \E id \in AllSpecIds : ToggleTracing(id, Nil)
  \/ \E opID \in StoreRuleOps, input \in StoreRuleInputs :
       CreateResponseConfig(opID, input)
  \/ \E id \in CfgIds, update \in StoreRuleUpdates :
       UpdateResponseConfig(id, update)
  \/ \E id \in CfgIds : DeleteResponseConfig(id)
  \/ Restart

SpecStore == InitStore /\ [][NextStore]_vars

(***************************************************************************)
(* SpecLifecycle: uploads, deletions, flags and base paths of two specs,   *)
(* one admin call at a time                                                *)
(***************************************************************************)
LifecycleSpecIds == {"s1", "s2"}
LifecycleSpecInputs ==
  {[content |-> UsersDoc, basePath |-> <<>>],
   [content |-> FilesDoc, basePath |-> <<>>]}
LifecycleSpecUpdates ==
  {[basePath |-> Some(<<"/", "api">>), enabled |-> Nil, tracing |-> Nil]}
LifecycleRuleOps ==
  {GenerateOperationID(id, "GET", <<"/", "users", "/", "me">>) :
     id \in LifecycleSpecIds}
LifecycleRuleInputs ==
  [priority : {0}, conditions : {Nil}, statusCode : {0}, delay : {0},
   headers : {Nil}, body : {"a"}, enabled : {TRUE}]

InitLifecycle == TraceInit({0}) /\ AppInit

NextLifecycle ==
  \/ \E id \in LifecycleSpecIds, input \in LifecycleSpecInputs :
       CreateSpec(id, input)
  \/ \E id \in AllSpecIds, update \in LifecycleSpecUpdates :
       UpdateSpec(id, update)
  \/ \E id \in AllSpecIds : DeleteSpec(id)
  \/ \E id \in AllSpecIds : EnableSpec(id)
  \/ \E id \in AllSpecIds : DisableSpec(id)
  \/ \E opID \in LifecycleRuleOps, input \in LifecycleRuleInputs :
       CreateResponseConfig(opID, input)

SpecLifecycle == InitLifecycle /\ [][NextLifecycle]_vars

(***************************************************************************)
(* SpecRules: rules created and updated with status codes of every kind,   *)
(* and dispatched requests                                                 *)
(***************************************************************************)
RulesSpecIds == {"s1"}
RulesSpecInputs == {[content |-> UsersDoc, basePath |-> <<>>]}
RulesRuleInputs ==
  [priority : {0}, conditions : {Nil}, statusCode : {0, 404, 700}, delay : {0},
   headers : {Nil}, body : {"a"}, enabled : {TRUE}]
RulesRuleUpdates ==
  [priority : {Nil}, statusCode : {Some(599), Some(600)},
   body : {Nil}, enabled : {Nil}]
RulesRequests == {DispatchRequest(<<"/", "users", "/", "me">>, EmptyMap)}

InitRules == TraceInit({0}) /\ AppInit

NextRules ==
  \/ \E id \in RulesSpecIds, input \in RulesSpecInputs : CreateSpec(id, input)
  \/ \E input \in RulesRuleInputs : CreateResponseConfig(UsersMe, input)
  \/ \E id \in CfgIds, update \in RulesRuleUpdates :
       UpdateResponseConfig(id, update)
  \/ \E req \in RulesRequests : ServeHTTP(req)

SpecRules == InitRules /\ [][NextRules]_vars

(***************************************************************************)
(* SpecAdmin: a CreateSpec call and a DeleteSpec call that interleave, and *)
(* rule creation                                                           *)
(***************************************************************************)
AdminSpecIds == {"s1", "s2"}
AdminSpecInputs == {[content |-> UsersDoc, basePath |-> <<>>]}

InitAdmin == TraceInit({0}) /\ AppInit

NextAdmin ==
  \/ \E id \in AdminSpecIds, input \in AdminSpecInputs :
       CreateSpecParse(id, input)
  \/ CreateSpecOperation
  \/ CreateSpecReload
  \/ \E id \in AdminSpecIds : DeleteSpecGetOps(id)
  \/ DeleteSpecRules
  \/ DeleteSpecOperations
  \/ DeleteSpecFinish
  \/ \E opID \in LifecycleRuleOps, input \in LifecycleRuleInputs :
       CreateResponseConfig(opID, input)

SpecAdmin == InitAdmin /\ [][NextAdmin]_vars

(***************************************************************************)
(* SpecReload: ReloadRoutes beside concurrent lookups                      *)
(***************************************************************************)
ReloadSpecIds == {"s1", "s2"}
ReloadSpecInputs ==
  {[content |-> UsersDoc, basePath |-> <<>>],
   [content |-> PetsDoc, basePath |-> <<"/", "api">>]}
ReloadRequests ==
  [method : {"GET"},
   path : {<<"/", "users", "/", "me">>, <<"/", "api", "/", "pets">>},
   query : {EmptyMap},
   headers : {EmptyMap}]

InitReload == TraceInit({0}) /\ AppInit

NextReload ==
  \/ \E id \in ReloadSpecIds, input \in ReloadSpecInputs :
       CreateSpecBegin(id, input)
  \/ \E id \in AllSpecIds : EnableSpecBegin(id)
  \/ \E id \in AllSpecIds : DisableSpecBegin(id)
  \/ ReloadLock
  \/ ReloadClear
  \/ ReloadSpecStep
  \/ ReloadSort
  \/ \E l \in Lookups : LookupRLock(l)
  \/ \E l \in Lookups, req \in ReloadRequests : LookupMatch(l, req)

SpecReload == InitReload /\ [][NextReload]_vars

(***************************************************************************)
(* Observations of the latest dispatched request                           *)
(***************************************************************************)
\* the request matched a route
Dispatched == last.via \in {"rule", "example", "nomatch"}

\* the rules of the answering operation that are enabled and whose
\* conditions all hold for the answered request
Candidates ==
  {id \in CfgIdsOf(responseConfigs) :
     /\ responseConfigs[id].operationId = last.opId
     /\ responseConfigs[id].enabled
     /\ EvaluateAll(responseConfigs[id].conditions, last.data)}

AnsweringOperation == CHOOSE o \in operations : o.id = last.opId

(***************************************************************************)
(* C1: for the rules of an operation and a request, the selected rule is   *)
(* one with the smallest priority among the rules that are enabled and     *)
(* whose conditions all hold; no rule is selected when there is no such    *)
(* rule; a disabled rule is never selected.                                *)
(***************************************************************************)
C1_SelectsSmallestPriority ==
  Dispatched =>
    IF Candidates = {} THEN last.config = 0
    ELSE /\ last.config \in Candidates
         /\ \A c \in Candidates :
              responseConfigs[last.config].priority
                <= responseConfigs[c].priority

\* a rule created later wins by its priority over an earlier candidate,
\* while a disabled rule of the same operation is passed over
C1_Witness ==
  /\ Dispatched
  /\ last.config # 0
  /\ \E c \in Candidates :
       /\ c < last.config
       /\ responseConfigs[c].priority > responseConfigs[last.config].priority
  /\ \E d \in CfgIdsOf(responseConfigs) :
       /\ responseConfigs[d].operationId = last.opId
       /\ ~responseConfigs[d].enabled
       /\ responseConfigs[d].priority <= responseConfigs[last.config].priority

(***************************************************************************)
(* C2: while ReloadRoutes runs beside lookups, a lookup that holds the     *)
(* read lock matches against the table of the latest completed reload,     *)
(* which is the table from before a running reload or, once that reload    *)
(* has returned, the one from after it; such a table is complete for the   *)
(* store it was built from, never emptied or half built.                   *)
(***************************************************************************)
C2_LookupSeesWholeTable ==
  /\ \A l \in Lookups : lpc[l] = "match" => routes = committed
  /\ rpc \in {"idle", "lock"} => routes = committed
  /\ rpc = "idle" => routes \in ReloadedTables(specs, operations)

\* a lookup reads the old table, which holds routes, while a reload of a
\* changed store waits for the lock
C2_Witness ==
  /\ \E l \in Lookups : lpc[l] = "match"
  /\ rpc = "lock"
  /\ routes # NoRoutes
  /\ routes \notin ReloadedTables(specs, operations)

(***************************************************************************)
(* C3: Record never sends a trace on a subscriber channel that Unsubscribe *)
(* has already closed, in any interleaving of Record, Subscribe and        *)
(* Unsubscribe.                                                            *)
(***************************************************************************)
C3_NoSendOnClosed == ~sendPanic

\* a Record call is in its notify loop, about to send, while another
\* subscription has already been closed by Unsubscribe
C3_Witness ==
  \E p \in Recorders :
    /\ pc[p] = "send"
    /\ \E s \in SubIds : chanClosed[s]

(***************************************************************************)
(* C4: Record never waits on a subscriber: a send step can always be       *)
(* taken; a trace is dropped for a subscriber only when that subscriber's  *)
(* queue holds SubscriberQueueCap traces; and when the notify loop is      *)
(* over the trace is the newest of the ring and was sent to, or dropped    *)
(* for, every subscriber of the map.                                       *)
(***************************************************************************)
C4_DropNeverBlock ==
  \A p \in Recorders :
    /\ pc[p] = "send" => ENABLED RecordSend(p)
    /\ \A s \in SubIds :
         outcome[p][s] \in {NotOffered, Skipped, Sent,
                            Dropped(SubscriberQueueCap)}
    /\ (pc[p] = "notify" /\ pending[p] = {}) =>
         /\ traces # <<>> /\ Last(traces) = cur[p]
         /\ \A s \in subscribers :
              outcome[p][s] \in {Sent, Dropped(SubscriberQueueCap)}

\* the notify loop is over, the trace was dropped for one subscriber and
\* sent to another
C4_Witness ==
  \E p \in Recorders :
    /\ pc[p] = "notify" /\ pending[p] = {}
    /\ \E s1, s2 \in subscribers :
         /\ outcome[p][s1] = Dropped(SubscriberQueueCap)
         /\ outcome[p][s2] = Sent

(***************************************************************************)
(* C5: the ring never holds more than maxTraces traces and holds exactly   *)
(* the last maxTraces recorded since the last clear, in recording order    *)
(* (all of them while fewer than maxTraces were recorded).                 *)
(***************************************************************************)
C5_RingHoldsLast ==
  /\ Len(traces) <= maxTraces
  /\ recorded # Overflow =>
       [i \in 1..Len(traces) |-> traces[i].id] = LastN(recorded, maxTraces)

\* more traces were recorded than the ring holds
C5_Witness ==
  /\ recorded # Overflow
  /\ Len(recorded) > maxTraces
  /\ Len(traces) = maxTraces

(***************************************************************************)
(* C6: when no enabled rule matches, the example of the operation is       *)
(* served only if the operation has an example and the example-fallback    *)
(* flag of the spec is on; otherwise the answer is 404 with the fixed      *)
(* error body.                                                             *)
(***************************************************************************)
C6_ExampleOnlyWithFlag ==
  (Dispatched /\ Candidates = {}) =>
    IF /\ AnsweringOperation.example # NoExample
       /\ specs[last.specId].useExampleFallback
    THEN /\ last.via = "example"
         /\ last.statusCode = AnsweringOperation.example.statusCode
         /\ last.body = AnsweringOperation.example.body
    ELSE /\ last.statusCode = 404
         /\ last.body = NoMatchBody

(***************************************************************************)
(* C7: every request that matched a route records one statistics entry     *)
(* and, if the tracing flag of the owning spec is on, one trace, whether    *)
(* the answer came from a rule, from the example or was the structured 404. *)
(***************************************************************************)
C7_StatsThenTrace ==
  [][(last'.via \in {"rule", "example", "nomatch"}) =>
       /\ stats'.requests = stats.requests + 1
       /\ IF specs'[last'.specId].tracing
          THEN /\ nextTrace' = nextTrace + 1
               /\ traces' # <<>>
               /\ Last(traces').specId = last'.specId
          ELSE traces' = traces]_vars

(***************************************************************************)
(* C8: among the enabled rules of one operation that have equal priority   *)
(* and all match the request, the rule created first is selected.          *)
(***************************************************************************)
C8_TieFirstCreated ==
  (Dispatched /\ last.config # 0) =>
    \A c \in Candidates :
      responseConfigs[c].priority = responseConfigs[last.config].priority
        => last.config <= c

(***************************************************************************)
(* C9: a restart on the file store leaves the same specs and rules with    *)
(* the same field values (tracing aside), the same operation ids and the   *)
(* same enabled flags.                                                     *)
(***************************************************************************)
C9_RestartPreservesStore ==
  [][Restart =>
       /\ responseConfigs' = responseConfigs
       /\ \A id \in AllSpecIds :
            specs'[id] = IF specs[id] = NoSpec THEN NoSpec
                         ELSE [specs[id] EXCEPT !.tracing = FALSE]
       /\ OperationIds(operations') = OperationIds(operations)]_vars

(***************************************************************************)
(* C10: after a process start every spec loaded from the files has         *)
(* tracing off, even if its file says tracing is on.                       *)
(***************************************************************************)
C10_TracingOffAfterStart ==
  last = Started => \A id \in SpecIdsOf(specs) : ~specs[id].tracing

\* the process has just started on a file that says tracing is on
C10_Witness ==
  /\ last = Started
  /\ \E id \in SpecIdsOf(specs) :
       /\ diskSpecJson[id] # NoFile
       /\ diskSpecJson[id][1].tracing

(***************************************************************************)
(* Observations of uploads                                                 *)
(***************************************************************************)
\* the step uploads spec id after old, an upload of the same input, was
\* deleted
Reuploads(id, old) ==
  /\ uploaded[id] = Nil
  /\ uploaded'[id] # Nil
  /\ old \in uploaded'[id][1].reupload

OperationIdsOfUpload(id) == {o.id : o \in uploaded[id][1].ops}
PathsOfUpload(u) == {[method |-> o.method, path |-> o.path] : o \in u.ops}

\* no stored rule is attached to an operation the upload of old made
NoRuleOfUpload(rc, old) ==
  \A c \in CfgIdsOf(rc) : rc[c].operationId \notin OperationIdsOfUpload(old)

(***************************************************************************)
(* C11: uploading a spec S, deleting it and uploading S again yields a     *)
(* spec whose operations have the same operation ids as those of the first *)
(* upload, and no rule created for the first upload survives.              *)
(***************************************************************************)
C11_ReuploadSameOperationIds ==
  [][\A id, old \in AllSpecIds :
       Reuploads(id, old) =>
         /\ OperationIds(GetOperationsBySpec(operations', id)) =
              OperationIdsOfUpload(old)
         /\ NoRuleOfUpload(responseConfigs', old)]_vars

(***************************************************************************)
(* C11 as amended: uploading a spec S, deleting it and uploading S again   *)
(* yields a spec equal to the first upload in every field but its id; its  *)
(* operations have the same methods and paths as those of the first        *)
(* upload under operation ids of their own, derived from the new spec id;  *)
(* and no rule created for the first upload survives.                      *)
(***************************************************************************)
C11_ReuploadSamePaths ==
  [][\A id, old \in AllSpecIds :
       Reuploads(id, old) =>
         /\ specs'[id] = [uploaded[old][1].spec EXCEPT !.id = id]
         /\ PathsOfUpload(uploaded'[id][1]) = PathsOfUpload(uploaded[old][1])
         /\ OperationIds(GetOperationsBySpec(operations', id)) =
              {GenerateOperationID(id, o.method, o.path) :
                 o \in uploaded[old][1].ops}
         /\ OperationIds(GetOperationsBySpec(operations', id)) \cap
              OperationIdsOfUpload(old) = {}
         /\ NoRuleOfUpload(responseConfigs', old)]_vars

\* a spec uploaded again after the deletion of its first upload, for which
\* a rule had been created: rules leave the store of this specification
\* only through DeleteSpec
C11_Witness ==
  \E id \in SpecIdsOf(specs) :
    /\ uploaded[id] # Nil
    /\ uploaded[id][1].reupload # {}
    /\ nextCfg > 1
    /\ CfgIdsOf(responseConfigs) = {}

C13_OperationsHaveSpec ==
  ccall = NoCall /\ dcall = NoCall =>
    \A o \in operations : o.specId \in SpecIdsOf(specs)

(***************************************************************************)
(* C14: toggling a spec's enabled flag an even number of times leaves      *)
(* request matching as it was before the toggles: every request matches    *)
(* the same operation, or no operation, as before.                         *)
(***************************************************************************)
C14_EvenTogglesRestoreMatching ==
  toggles # NoToggles /\ ~toggles.odd => Matching(routes) = toggles.before

(***************************************************************************)
(* Observations of the route table                                         *)
(***************************************************************************)
\* the places of a table: method and index
PlacesOf(table) ==
  UNION {{<<m, i>> : i \in 1..Len(table[m])} : m \in Methods}

RouteAt(table, place) == table[place[1]][place[2]]

\* the places of the routes built for operation o
RoutesFor(table, o) ==
  {place \in PlacesOf(table) : RouteAt(table, place).op.id = o.id}

(***************************************************************************)
(* C15: immediately after any successful ReloadRoutes, the route table     *)
(* holds one route for each operation of each enabled spec and no route    *)
(* for any operation of a disabled spec.                                   *)
(***************************************************************************)
C15_ReloadedTableIsExact ==
  [][rpc = "specs" /\ rpc' = "idle" =>
       /\ \A o \in operations' :
            Cardinality(RoutesFor(routes', o)) =
              IF specs'[o.specId].enabled THEN 1 ELSE 0
       /\ \A place \in PlacesOf(routes') :
            LET r == RouteAt(routes', place)
            IN /\ r.op \in operations'
               /\ r.op.method = place[1]
               /\ r.specId = r.op.specId]_vars

\* a reload has returned with one spec disabled and the other enabled
C15_Witness ==
  /\ rpc = "idle"
  /\ routes = committed
  /\ \E a, b \in SpecIdsOf(specs) :
       /\ ~specs[a].enabled
       /\ GetOperationsBySpec(operations, a) # {}
       /\ specs[b].enabled
       /\ \A o \in GetOperationsBySpec(operations, b) :
            RoutesFor(routes, o) # {}

\* what routing depends on: the specs with their base paths and enabled
\* flags, and the operations
RoutingInventory ==
  <<[id \in SpecIdsOf(specs) |->
       [basePath |-> specs[id].basePath, enabled |-> specs[id].enabled]],
    operations>>

\* the operations of enabled specs a request for method m and path p fits
FittingOperations(sp, ops, m, p) ==
  {o \in ops :
     /\ o.method = m
     /\ o.specId \in GetEnabledSpecs(sp)
     /\ PatternMatches(PathJoin(sp[o.specId].basePath, o.path), p)}

\* every request is matched against the inventory sp, ops: to a stored
\* operation of an enabled spec that it fits, or to none when it fits none
MatchedAgainst(table, sp, ops) ==
  \A m \in Methods, p \in RoutedPaths :
    LET idx == MatchRoute(table, m, p)
    IN IF idx = 0 THEN FittingOperations(sp, ops, m, p) = {}
       ELSE table[m][idx].op \in FittingOperations(sp, ops, m, p)

SpecificFirst(table) ==
  \A m \in Methods : \A i, j \in 1..Len(table[m]) :
    i < j =>
      LET a == table[m][i]
          b == table[m][j]
      IN /\ Len(a.paramKeys) <= Len(b.paramKeys)
         /\ Len(a.paramKeys) = Len(b.paramKeys) =>
              StrLen(a.op.path) >= StrLen(b.op.path)

\* GET /users/me matches a literal route, GET /users/7 a parametrised one
LiteralBeforeParam(table) ==
  LET me == MatchRoute(table, "GET", <<"/", "users", "/", "me">>)
      seven == MatchRoute(table, "GET", <<"/", "users", "/", "7">>)
  IN /\ me # 0 => table["GET"][me].paramKeys = <<>>
     /\ seven # 0 => table["GET"][seven].paramKeys = <<"id">>

(***************************************************************************)
(* C17: within one HTTP method the routes are tried with fewer captured    *)
(* parameters first and, among equal counts, the longer raw path first     *)
(* (GET /users/me matches the literal route, GET /users/7 the parametrised *)
(* one), and matching is deterministic: while the inventory of specs and   *)
(* operations stays the same, every request matches the same operation     *)
(* after every reload.                                                     *)
(***************************************************************************)
C17_SpecificFirstDeterministic ==
  [][/\ SpecificFirst(routes')
     /\ LiteralBeforeParam(routes')
     /\ RoutingInventory' = RoutingInventory =>
          Matching(routes') = Matching(routes)]_vars

\* the path a route was built from: the base path of its spec followed by
\* the path of its operation
BuiltFrom(r) == specs[r.specId].basePath \o r.op.path

\* every {param} of the route has a value in the request, and not an empty
\* one
CapturesAll(r, p) ==
  LET params == PathParamsOf(r.pattern, p)
  IN /\ DOMAIN params = {r.paramKeys[i] : i \in 1..Len(r.paramKeys)}
     /\ \A k \in DOMAIN params : params[k] \notin {"", Slash}

(***************************************************************************)
(* C18: for every route in the table, the method and path (base path       *)
(* followed by operation path) the route was built from match the route's  *)
(* compiled pattern, and for any matching request every {param} of that    *)
(* path is captured with a non-empty value.                                *)
(***************************************************************************)
C18_RouteMatchesOwnPath ==
  \A place \in PlacesOf(routes) :
    LET r == RouteAt(routes, place)
    IN /\ r.op.method = place[1]
       /\ PatternMatches(r.pattern, BuiltFrom(r))
       /\ \A p \in RoutedPaths :
            PatternMatches(r.pattern, p) => CapturesAll(r, p)

(***************************************************************************)
(* C19: for every rule whose statusCode lies in [100,599], a response      *)
(* served from that rule has exactly that status code.                     *)
(***************************************************************************)
C19_ServedStatusIsRuleStatus ==
  [][stats'.requests = stats.requests + 1 /\ last'.via = "rule" =>
       LET cfg == responseConfigs[last'.config]
       IN cfg.statusCode \in 100..599 => last'.statusCode = cfg.statusCode]_vars

\* a request was answered from a rule whose status code is not the default
C19_Witness ==
  /\ last.via = "rule"
  /\ last.statusCode \in {404, 599}
  /\ responseConfigs[last.config].statusCode = last.statusCode

(***************************************************************************)
(* C20: after any sequence of admin rule create and update operations,     *)
(* every stored rule has a statusCode in [100,599].                        *)
(***************************************************************************)
C20_StoredStatusInRange ==
  \A c \in CfgIdsOf(responseConfigs) :
    responseConfigs[c].statusCode \in 100..599

(***************************************************************************)
(* C21: each subscriber receives traces in the relative order in which     *)
(* they were appended to the ring, also when several RecordTrace calls     *)
(* run concurrently: of two traces sent to a subscriber, the one sent      *)
(* first was appended first.                                               *)
(***************************************************************************)
\* the place of a trace in the order of appends: ids are drawn at the append
AppendedAt(t) == t.id[2]
\* what subscriber s was sent, in the order of the sends: nothing is taken
\* from the queues in SpecDelivery, and a reader takes from the front
Delivered(s) == chanBuf[s]

C21_SubscriberSeesRingOrder ==
  \A s \in SubIds :
    \A i, j \in 1..Len(Delivered(s)) :
      i < j => AppendedAt(Delivered(s)[i]) < AppendedAt(Delivered(s)[j])

\* a subscriber was sent two traces while a third call, which waited for the
\* lock, is in its notify loop
C21_Witness ==
  \E s \in SubIds, p \in Recorders :
    /\ Len(Delivered(s)) = MaxRecords - 1
    /\ pc[p] = "send"
    /\ target[p] = s
    /\ AppendedAt(cur[p]) = MaxRecords

(***************************************************************************)
(* C22: a request dispatched on a spec with tracing enabled produces       *)
(* exactly one trace, which appears once in the ring and once on the       *)
(* channel of every active subscriber that has free queue capacity; a      *)
(* request on a spec with tracing disabled produces no trace.              *)
(***************************************************************************)
\* how often the trace with this id is in a sequence of traces
Occurrences(ts, id) == Cardinality({i \in 1..Len(ts) : ts[i].id = id})
\* the subscribers a RecordTrace call finds with room in their queue
Listening ==
  {s \in subscribers : ~subClosed[s] /\ Len(chanBuf[s]) < SubscriberQueueCap}

OneTraceEverywhere ==
  /\ traces' # <<>>
  /\ LET t == Last(traces')
     IN /\ t.specId = last'.specId
        /\ Occurrences(traces, t.id) = 0
        /\ Occurrences(traces', t.id) = 1
        /\ Len(traces') = Min(Len(traces) + 1, maxTraces)
        /\ \A s \in SubIds :
             chanBuf'[s] = IF s \in Listening THEN Append(chanBuf[s], t)
                           ELSE chanBuf[s]

NoTraceAnywhere == traces' = traces /\ chanBuf' = chanBuf

C22_OneTracePerDispatch ==
  [][Dispatch /\ last'.via # "notfound" =>
       IF specs[last'.specId].tracing THEN OneTraceEverywhere
       ELSE NoTraceAnywhere]_vars

(***************************************************************************)
(* C23: when the store returns an error for the rules of the matched       *)
(* operation, the request is handled as if the operation had no rules:     *)
(* the example of the operation is served if it has one, the structured    *)
(* 404 otherwise, and no error status reaches the client.                  *)
(***************************************************************************)
C23_LookupErrorMeansNoRules ==
  [][FailedLookup /\ last'.via # "notfound" =>
       /\ last'.config = 0
       /\ IF AnsweringOperation'.example # NoExample
          THEN /\ last'.via = "example"
               /\ last'.statusCode = AnsweringOperation'.example.statusCode
               /\ last'.body = AnsweringOperation'.example.body
          ELSE /\ last'.via = "nomatch"
               /\ last'.statusCode = 404
               /\ last'.body = NoMatchBody
       /\ last'.statusCode < 500]_vars

\* the example was served although a rule of the operation matches
C23_Witness ==
  /\ last.via = "example"
  /\ Candidates # {}

(***************************************************************************)
(* C24: within a request served from a rule, the configured delay elapses  *)
(* after the selection of the rule and before any response header is set,  *)
(* then the headers are written before the status line and the status     *)
(* line before the body.                                                   *)
(***************************************************************************)
\* what a request served from this rule does, in order
StepsOfRule(delay) ==
  IF delay > 0 THEN <<"selected", "slept", "headers", "status", "body">>
  ELSE <<"selected", "headers", "status", "body">>
IsPrefix(a, b) == Len(a) <= Len(b) /\ a = SubSeq(b, 1, Len(a))

C24_DelayHeadersStatusBody ==
  /\ \A h \in Servers :
       scall[h].pc \notin {"idle", "rlock", "match", "select"} =>
         /\ IsPrefix(scall[h].wrote, StepsOfRule(scall[h].cfg.delay))
         /\ scall[h].pc = "asleep" => scall[h].wrote = <<"selected">>
  /\ last.via = "served" => last.wrote = StepsOfRule(last.delay)

\* a request that slept has been answered to the end, after a rule without
\* a delay was created beside the selected one
C24_Witness ==
  /\ last.via = "served"
  /\ last.delay > 0
  /\ Len(last.wrote) = 5
  /\ \E c \in CfgIdsOf(responseConfigs) : responseConfigs[c].delay = 0

(***************************************************************************)
(* C25: concurrent requests make progress independently: a request that    *)
(* sleeps in its delay holds no lock, so it blocks neither another request *)
(* nor a route reload, and every delayed request finishes one delay after  *)
(* it started, however many others sleep beside it.                        *)
(***************************************************************************)
Asleep == {h \in Servers : scall[h].pc = "asleep"}

C25_SleepHoldsNoLock ==
  /\ \A h \in Asleep : h \notin emu.readers /\ mu # h
  /\ (/\ rpc = "lock"
      /\ Asleep # {}
      /\ \A h \in Servers : h \in Asleep \/ scall[h] = NoServe)
       => ENABLED ReloadLock
  /\ \A h \in Servers, g \in Asleep :
       scall[h].pc = "rlock" /\ rpc \in {"idle", "lock"}
         => ENABLED ServeRLock(h)
  /\ last.via = "served" => last.duration = last.delay

\* two requests sleep at the same time while ReloadRoutes asks for the lock
C25_Witness ==
  /\ Asleep = Servers
  /\ rpc = "lock"

(***************************************************************************)
(* C26: every response dispatched for a matched operation is counted in    *)
(* the statistics: as an error when its status code is 400 or more, as a   *)
(* request that is no error when it is below 400.                          *)
(***************************************************************************)
\* the statistics after one more response with this status code
Counted(st, statusCode) ==
  [requests |-> st.requests + 1,
   errors |-> st.errors + (IF statusCode >= 400 THEN 1 ELSE 0)]

C26_ErrorsCountedFrom400 ==
  [][(\E req \in DispatchRequests : ServeHTTP(req)) /\ last'.matched =>
       stats' = Counted(stats, last'.statusCode)]_vars

(***************************************************************************)
(* C27 as stated: Evaluate never raises an error and answers false on any  *)
(* pathological input: missing data, a malformed regular expression, an    *)
(* invalid number.                                                         *)
(***************************************************************************)
\* the value the condition reads from the request, and the three cases
ReadValue == ExtractValue(last.cond.source, last.cond.key, last.data)
MissingData == ReadValue = ""
MalformedRegex ==
  last.cond.operator = "regex" /\ RegexpCompile(last.cond.value) = Nil
InvalidNumber ==
  /\ last.cond.operator \in NumericOperators
  /\ ParseFloat(ReadValue) = Nil \/ ParseFloat(last.cond.value) = Nil

C27_FalseOnPathologicalInput ==
  last.via = "evaluate" =>
    /\ last.result \in BOOLEAN
    /\ MissingData \/ MalformedRegex \/ InvalidNumber => ~last.result

(***************************************************************************)
(* C27, amended: Evaluate never raises an error and always answers true or *)
(* false. A malformed regular expression answers false. Missing data is    *)
(* read as the empty string and compared as such, so notExists answers     *)
(* true on it and exists false. When either side of gt, lt, gte or lte is  *)
(* no number, the two strings are compared in byte order.                  *)
(***************************************************************************)
\* the sign test of a numeric operator
SignTest(operator, sign) ==
  CASE operator = "gt" -> sign > 0
    [] operator = "lt" -> sign < 0
    [] operator = "gte" -> sign >= 0
    [] operator = "lte" -> sign <= 0

ByteOrder(a, b) ==
  IF StringLess(a, b) THEN -1 ELSE IF StringLess(b, a) THEN 1 ELSE 0

C27_EvaluateNeverFails ==
  last.via = "evaluate" =>
    /\ last.result \in BOOLEAN
    /\ MalformedRegex => ~last.result
    /\ MissingData =>
         /\ last.cond.operator = "exists" => ~last.result
         /\ last.cond.operator = "notExists" => last.result
         /\ last.cond.operator = "eq" => (last.result <=> last.cond.value = "")
         /\ last.cond.operator = "ne" => (last.result <=> last.cond.value # "")
    /\ InvalidNumber =>
         (last.result <=>
            SignTest(last.cond.operator, ByteOrder(ReadValue, last.cond.value)))

\* "abc" from the request was found greater than the number 9
C27_Witness ==
  /\ last.via = "evaluate"
  /\ InvalidNumber
  /\ ReadValue = "abc"
  /\ last.cond.value = "9"
  /\ last.cond.operator = "gt"
  /\ last.result

(***************************************************************************)
(* C28: EvaluateAll answers true for an empty list, answers false as soon  *)
(* as one condition evaluates false without evaluating the conditions      *)
(* after it, and answers true only if every condition evaluates true.      *)
(***************************************************************************)
\* the places of the conditions of the list that evaluate false
FalsePlaces ==
  {i \in 1..Len(last.conds) : ~Evaluate(last.conds[i], last.data)}

C28_EvaluateAllShortCircuits ==
  last.via = "evaluateAll" =>
    /\ last.conds = <<>> => last.result
    /\ last.result <=> FalsePlaces = {}
    /\ last.evaluated =
         IF FalsePlaces = {} THEN Len(last.conds)
         ELSE CHOOSE i \in FalsePlaces : \A j \in FalsePlaces : i <= j

\* the first condition of a longer list was false
C28_Witness ==
  /\ last.via = "evaluateAll"
  /\ Len(last.conds) = MaxConds
  /\ 1 \in FalsePlaces
  /\ ~last.result
  /\ last.evaluated = 1

(***************************************************************************)
(* C29: GetTraces(filter) returns, newest first, the traces of the ring    *)
(* that satisfy every predicate set in the filter; when a limit is set it  *)
(* returns exactly the newest `limit` such traces, or all of them if there *)
(* are fewer.                                                              *)
(***************************************************************************)
\* the trace satisfies every predicate the filter sets
Satisfies(filter, trace) ==
  /\ filter.specId # "" => trace.specId = filter.specId
  /\ filter.operationId # "" => trace.operationId = filter.operationId
  /\ filter.method # "" => trace.request.method = filter.method
  /\ filter.statusCode # 0 => trace.response.statusCode = filter.statusCode
  /\ filter.startTime # 0 => trace.timestamp >= filter.startTime
  /\ filter.endTime # 0 => trace.timestamp <= filter.endTime

\* the places of the ring whose traces the filter asks for
Asked(filter) ==
  {i \in 1..Len(traces) : filter = Nil \/ Satisfies(filter[1], traces[i])}

\* how many traces the answer holds
AnswerLen(filter) ==
  IF filter # Nil /\ filter[1].limit > 0 /\ filter[1].limit < Cardinality(Asked(filter))
  THEN filter[1].limit ELSE Cardinality(Asked(filter))

\* the place in the ring of the k-th newest trace asked for
NewestAsked(filter, k) ==
  CHOOSE i \in Asked(filter) :
    Cardinality({j \in Asked(filter) : j >= i}) = k

C29_GetTracesNewestFirst ==
  last.via = "traces" =>
    /\ Len(last.result) = AnswerLen(last.filter)
    /\ \A k \in 1..Len(last.result) :
         last.result[k] = traces[NewestAsked(last.filter, k)]

\* a full ring whose newest trace fails the filter, and more traces asked
\* for than the limit: the answer is the newest of them
C29_Witness ==
  /\ last.via = "traces"
  /\ last.filter # Nil
  /\ last.filter[1].limit = 1
  /\ last.filter[1].method = "GET"
  /\ Len(traces) = MaxRecords
  /\ Asked(last.filter) = {1, 2}
  /\ last.result = <<traces[2]>>

(***************************************************************************)
(* C30: once a WebSocket trace client closes its connection, the handler   *)
(* eventually ends the subscription: the subscriber is removed from the    *)
(* trace bus and its channel is closed, so no subscription outlives its    *)
(* connection.                                                             *)
(***************************************************************************)
\* the client of subscription s has closed its connection
ClientClosed(s) ==
  \E c \in Conns : ws[c].pc # "idle" /\ ws[c].sub = s /\ ~ws[c].open

SubscriptionEnded(s) == s \notin subscribers /\ chanClosed[s]

C30_CloseEndsSubscription ==
  \A s \in 1..MaxSubs : ClientClosed(s) ~> SubscriptionEnded(s)

\* a client closed while traces were queued for it; the goroutine that
\* reads saw the close, the handler returned, and the subscription has
\* ended with traces still in the queue
C30_Witness ==
  \E c \in Conns :
    /\ ws[c].pc = "idle"
    /\ ws[c].sub \in 1..MaxSubs
    /\ ~ws[c].open
    /\ ws[c].done
    /\ SubscriptionEnded(ws[c].sub)
    /\ chanBuf[ws[c].sub] # <<>>

(***************************************************************************)
(* C31: after any sequence of spec uploads and spec updates, the base path *)
(* of every stored spec is either empty or begins with / and has no        *)
(* trailing /.                                                             *)
(***************************************************************************)
WellFormedBasePath(basePath) ==
  basePath # <<>> => Head(basePath) = Slash /\ Last(basePath) # Slash

C31_BasePathNormalized ==
  \A id \in AllSpecIds :
    specs[id] # NoSpec => WellFormedBasePath(specs[id].basePath)

(***************************************************************************)
(* C32: every response served from a rule or from the example fallback     *)
(* carries a Content-Type header, which is application/json whenever the   *)
(* rule or the example did not set one.                                    *)
(***************************************************************************)
\* the headers the rule or the example that answered was stored with
HeadersSet ==
  IF last.via = "rule"
  THEN ProcessHeaders(responseConfigs[last.config].headers, last.data)
  ELSE AnsweringOperation.example.headers

SetsContentType ==
  "Content-Type" \in DOMAIN HeadersSet /\ HeadersSet["Content-Type"] # ""

CarriesContentType ==
  /\ "Content-Type" \in DOMAIN last.headers
  /\ last.headers["Content-Type"] =
       IF SetsContentType THEN HeadersSet["Content-Type"]
       ELSE "application/json"

Outcomes(key) == {Atoi(ResolveRandom(key, draw)) : draw \in Draws}

\* the result is the text of an integer of lo..hi, and so are the ends
InRange(lo, hi) ==
  /\ last.result = Itoa(Atoi(last.result))
  /\ lo <= Atoi(last.result)
  /\ Atoi(last.result) <= hi
  /\ {lo, hi} \subseteq Outcomes(last.key)

C33_RandomIntInclusive ==
  last.via = "random" /\ last.lo <= last.hi => InRange(last.lo, last.hi)

\* the same for the pairs lo < hi
C33_RandomIntInRangeGiven ==
  last.via = "random" /\ last.lo < last.hi => InRange(last.lo, last.hi)

(***************************************************************************)
(* C34: a ReloadRoutes call that fails with a store error leaves the live  *)
(* route table exactly as it was before the call, so requests that matched *)
(* before the failed reload still match after it.                          *)
(***************************************************************************)
StillMatches ==
  \A req \in OutageRequests :
    MatchRoute(routes, req.method, req.path) # 0 =>
      MatchRoute(routes', req.method, req.path) # 0

C34_FailedReloadKeepsRoutes ==
  [][FailedReload => routes' = routes /\ StillMatches]_vars

(***************************************************************************)
(* C35: after a tracing toggle on a spec has returned, every request       *)
(* dispatched on that spec afterwards is traced if and only if the new     *)
(* value of the flag is true; no route reload is needed in between.        *)
(***************************************************************************)
\* the dispatch recorded a trace of the spec that answered
TraceRecorded ==
  /\ Len(traces') = Len(traces) + 1
  /\ Last(traces').specId = last'.specId

\* the flag as the latest toggle left it in the store, read in a table
\* that was built before the toggle
FollowsFlag ==
  /\ committed' = committed
  /\ TraceRecorded <=> specs[last'.specId].tracing

C35_ToggleTakesEffect ==
  [][Dispatch /\ last'.via # "notfound" => FollowsFlag]_vars

\* the same for the requests answered from a rule or from the example
C35_AnsweredRequestsFollowFlag ==
  [][Dispatch /\ last'.via \in {"rule", "example"} => FollowsFlag]_vars

(***************************************************************************)
(* C36: a rule update made through the admin interface is observed         *)
(* atomically by dispatch: a request that runs beside the update sees      *)
(* either all of the rule's old field values or all of its new ones.       *)
(***************************************************************************)
\* the rule as a whole, as some handler call left it
WholeRules ==
  ucall.versions \cup
    {responseConfigs[id] :
       id \in {i \in CfgIds : ucall.pc = "idle" \/ ucall.id # i}}

\* what a call has read of its rule when it has written the status line
ReadOf(h) ==
  [id |-> scall[h].cfg.id, statusCode |-> scall[h].cfg.statusCode,
   body |-> scall[h].cfg.body]

C36_UpdateSeenWhole ==
  \A h \in Servers :
    scall[h].pc \in {"body", "record"} =>
      \E v \in WholeRules :
        v # NoCfg /\ ReadOf(h) = [id |-> v.id, statusCode |-> v.statusCode,
                                  body |-> v.body]

(***************************************************************************)
(* C37: a DeleteSpec admin call that is answered 404 because no spec with  *)
(* the given id exists leaves the store, the recorded traces and the route *)
(* table unchanged.                                                        *)
(***************************************************************************)
\* a step of the DeleteSpec call after store.GetOperationsBySpec
DeleteSpecStep == DeleteSpecRules \/ DeleteSpecOperations \/ DeleteSpecFinish

\* ids are never used again, so a call whose spec is missing at one of its
\* steps finds it missing at store.DeleteSpec and is answered 404
SpecMissing == dcall # NoCall /\ specs[dcall.id] = NoSpec

C37_NotFoundDeleteChangesNothing ==
  [][DeleteSpecStep /\ SpecMissing =>
       UNCHANGED <<specs, operations, responseConfigs, traces, routes>>]_vars

(***************************************************************************)
(* C38: a file-store write operation (create, update or delete of a spec   *)
(* or rule) that returns an error leaves the in-memory store as it was     *)
(* before the call, so that memory and disk never disagree about which     *)
(* entities exist or what they contain.                                    *)
(***************************************************************************)
C38_FailedWriteKeepsMemory ==
  [][FailedWrite => UNCHANGED <<specs, operations, responseConfigs>>]_vars

\* what a restart would load is what the store holds
MemoryAgreesWithDisk ==
  /\ specs = LoadSpecs(diskSpecJson, diskSpecContent)
  /\ responseConfigs = LoadResponseConfigs(diskRespJson, diskRespBody)

C38_NoFailedWriteNoDisagreement ==
  [][MemoryAgreesWithDisk /\ ~FailedWrite => MemoryAgreesWithDisk']_vars

(***************************************************************************)
(* C39: Unsubscribe may be called any number of times with any id,         *)
(* including an unknown or already removed one, without closing a channel  *)
(* twice and without affecting any other subscriber.                       *)
(***************************************************************************)
\* a step leaves the subscription s, its flag and its channel alone
Untouched(s) ==
  /\ (s \in subscribers') = (s \in subscribers)
  /\ subClosed'[s] = subClosed[s]
  /\ chanClosed'[s] = chanClosed[s]
  /\ chanBuf'[s] = chanBuf[s]

C39_UnsubscribeAnyTimes ==
  /\ [](~closePanic)
  /\ [][\A id \in SubIds :
          UnsubscribeCall(id) => \A s \in SubIds \ {id} : Untouched(s)]_vars

\* a removed subscription, an id never handed out and a subscriber with a
\* queued trace, at a moment the lock is free for another Unsubscribe
C39_Witness ==
  \E gone, unknown, other \in SubIds :
    /\ gone < nextSub /\ ~IsSubscribed(gone) /\ chanClosed[gone]
    /\ unknown >= nextSub
    /\ IsSubscribed(other) /\ ~chanClosed[other] /\ chanBuf[other] # <<>>
    /\ mu = NoProc
    /\ ~closePanic

(***************************************************************************)
(* C40: after MuxListener.Close, the accept loop terminates and every      *)
(* pending or later Accept on the derived HTTP and HTTPS listeners returns *)
(* an error instead of blocking; calling Close a second time does not      *)
(* panic.                                                                  *)
(***************************************************************************)
\* a Close call has returned
AfterClose == \E c \in Closers : mux.closers[c] = "returned"

\* an Accept call returns
AcceptReturns(l) == ChanAcceptConn(l) \/ ChanAcceptClosed(l)

\* after Close the loop ends, no Accept stays in its select, and no Close
\* closes the channel twice
C40_CloseNeverBlocks ==
  /\ [](~mux.closePanic)
  /\ AfterClose ~> mux.serve = "done"
  /\ \A l \in Listeners :
       (AfterClose /\ mux.acceptors[l].pc = "select")
         ~> mux.acceptors[l].pc = "idle"

C40_CloseStopsListeners ==
  /\ C40_CloseNeverBlocks
  /\ [][\A l \in Listeners :
          AfterClose /\ AcceptReturns(l) => mux'.acceptors[l].got = "EOF"]_vars
====
